---- MODULE Spec2Model ----
(***************************************************************************)
(* Model of the Helium duplicate cache (DuplicateCache.cpp) and of the     *)
(* submission controller (HeliumController.cpp) of transforma-reader.      *)
(*                                                                         *)
(* The specifications share one list of variables:                         *)
(*   Spec     - one thread calling the cache API in any order, with the    *)
(*              file system as environment and process restarts;           *)
(*   SpecConc - several threads inside AddEntry / Check, one statement     *)
(*              per step, synchronised by m_mutex;                         *)
(*   SpecPub  - SpecConc with threads in the public Save and Load;         *)
(*   SpecSync - StartBackgroundSync / StopBackgroundSync and SyncLoop;     *)
(*   SpecCtl  - the controller: submission tasks started by                *)
(*              OnSubmitClicked, interleaved with OnPdfOpened;             *)
(*   SpecBtn  - SetState and GetButtonState one statement per step;        *)
(*   SpecUi   - the foreground path of SumatraIntegration.cpp with the     *)
(*              classifier (InvoiceRouter.cpp);                            *)
(*   SpecId   - SpecCtl on paths that differ in directory or letter case;  *)
(*   SpecRelay- RelayClient::SubmitInvoice (RelayClient.cpp);              *)
(*   SpecDown - SpecCtl with Shutdown deleting the controller;             *)
(*   SpecLive - SpecCtl with the tasks' threads scheduled fairly;          *)
(*   SpecDoc  - SpecCtl with clicks on Ready for the current document.     *)
(***************************************************************************)
EXTENDS Integers, Sequences, FiniteSets, TLC

VARIABLES
    m_cachePath,        \* DuplicateCache::m_cachePath ("" until Load)
    m_entries,          \* DuplicateCache::m_entries, sequence of CacheEntry
    m_filenameIndex,    \* DuplicateCache::m_filenameIndex
    file,               \* content of the cache file on disk
    lastOp,             \* name of the operation that produced this state
    lastArg,            \* its arguments
    retBool,            \* value returned by the last Load / Save
    retCheck,           \* value returned by the last Check
    added,              \* history: filenames ever passed to AddEntry
    preExit,            \* history: <<Check results>> of the process that exited
    m_mutex,            \* SpecConc: thread holding m_mutex, or NoThread
    pc,                 \* SpecConc: position of each thread
    op,                 \* SpecConc: the call each thread is executing
    entry,              \* SpecConc: AddEntry's local CacheEntry
    header,             \* SpecConc: Save's local CacheHeader
    saveFailed,         \* SpecConc history: some Save could not open the file
    observed,           \* SpecConc: result of each thread's last Check
    m_buttonState,      \* SpecCtl: HeliumController::m_buttonState
    m_currentPdf,       \* SpecCtl: HeliumController::m_currentPdf
    sessionValid,       \* SpecCtl environment: does SessionToken::Load find a valid session
    initialized,        \* SpecCtl: has HeliumController::Initialize run
    task,               \* SpecCtl: position and locals of each submission task
    successes,          \* SpecCtl history: successful transport calls per base filename
    m_running,          \* SpecSync: DuplicateCache::m_running
    m_syncThread,       \* SpecSync: DuplicateCache::m_syncThread and its SyncLoop
    caller,             \* SpecSync: the thread that owns the cache, inside Start/Stop
    stops,              \* SpecSync history: StopBackgroundSync calls that returned
    notified,           \* history: callback invocations (modulo 2) and the state last passed
    m_onStateChange,    \* HeliumController::m_onStateChange: is a callback registered
    returned,           \* SpecUi history: what the last controller call returned and called
    setter,             \* SpecBtn: position and arguments of each thread inside SetState
    snapshot            \* SpecBtn: what the last GetButtonState returned

cacheVars == <<m_cachePath, m_entries, m_filenameIndex, file>>
callVars  == <<lastOp, lastArg, retBool, retCheck>>
histVars  == <<added, preExit>>
concVars  == <<m_mutex, pc, op, entry, header, saveFailed, observed>>
ctlVars   == <<m_buttonState, m_currentPdf, sessionValid, initialized, task,
               successes, notified>>
syncVars  == <<m_running, m_syncThread, caller, stops>>
uiVars    == <<m_onStateChange, returned, setter, snapshot>>
vars      == <<cacheVars, callVars, histVars, concVars, ctlVars, syncVars, uiVars>>

----------------------------------------------------------------------------
(* Bounds of the model *)
MaxEntries == 2        \* AddEntry is disabled once m_entries has this many records
MaxTime    == 2        \* time(nullptr) returns a value in 1..MaxTime
MaxTasks   == 2        \* submission tasks OnSubmitClicked can start

(* Program constants *)
FilenameSize      == 256    \* sizeof(CacheEntry::filename)
FirsReferenceSize == 32     \* sizeof(CacheEntry::firsReference)
SubmittedBySize   == 64     \* sizeof(CacheEntry::submittedBy)
CacheVersion      == 1      \* CacheHeader::version written by Save, required by Load

Min(a, b) == IF a < b THEN a ELSE b

----------------------------------------------------------------------------
(* Strings.  A string is pad copies of the byte 'x' followed by the bytes  *)
(* of tail; tail never contains 'x', so equal strings have equal           *)
(* representations.  No string contains a NUL byte.                        *)
Str(n, t)  == [pad |-> n, tail |-> t]
EmptyStr   == Str(0, <<>>)
StrLen(s)  == s.pad + Len(s.tail)

(* strncpy_s(dest, src, count) followed by reading dest back as a C string:*)
(* the first count bytes of src (dest is zero-initialised and one byte     *)
(* larger than count, so the copy is always NUL-terminated).               *)
strncpy_s(src, count) ==
    IF src.pad >= count
    THEN Str(count, <<>>)
    ELSE Str(src.pad, SubSeq(src.tail, 1, Min(Len(src.tail), count - src.pad)))

(* Inputs *)
NameA    == Str(0, <<"a">>)
NameB    == Str(0, <<"b">>)
LongName == Str(FilenameSize - 1, <<"a">>)          \* 256 bytes
Filenames  == {NameA, NameB, LongName}
CheckNames == Filenames \cup {strncpy_s(f, FilenameSize - 1) : f \in Filenames}

Ref1     == Str(0, <<"r">>)
LongRef  == Str(FirsReferenceSize - 1, <<"r">>)     \* 32 bytes
User1    == Str(0, <<"u">>)
LongUser == Str(SubmittedBySize - 1, <<"u">>)       \* 64 bytes
Times    == 1..MaxTime                              \* values of time(nullptr)
Inputs   == {<<NameA, Ref1, User1>>, <<NameB, LongRef, LongUser>>,
             <<LongName, Ref1, User1>>}                 \* AddEntry's arguments
Writable == BOOLEAN                                 \* can Save open the file

CachePath == "submitted-invoices.cache"
NoThread  == "none"

----------------------------------------------------------------------------
(* CacheEntry and the cache file *)
MakeEntry(filename, firsRef, user, t) ==
    [filename        |-> strncpy_s(filename, FilenameSize - 1),
     submitTimestamp |-> t,
     firsReference   |-> strncpy_s(firsRef, FirsReferenceSize - 1),
     submittedBy     |-> strncpy_s(user, SubmittedBySize - 1)]

ZeroEntry ==
    [filename |-> EmptyStr, submitTimestamp |-> 0,
     firsReference |-> EmptyStr, submittedBy |-> EmptyStr]

(* The cache file: is it there, and the header and the records it holds.   *)
(* CacheHeader::lastSyncTimestamp is written by Save and read by nothing;  *)
(* the file model leaves it out.                                           *)
NoFile ==
    [exists |-> FALSE, version |-> 0, entryCount |-> 0, data |-> <<>>]

(* A file somebody else wrote with a newer format *)
ForeignFile ==
    [exists |-> TRUE, version |-> CacheVersion + 1, entryCount |-> 0,
     data |-> <<>>]

(* A Save whose header counts one record too few *)
WrittenFileShortCount(entries) ==
    [exists |-> TRUE, version |-> CacheVersion,
     entryCount |-> IF Len(entries) > 0 THEN Len(entries) - 1 ELSE 0,
     data |-> entries]

(* What Save leaves on disk: the header, then the raw bytes of m_entries.   *)
(* (uint32_t)m_entries.size() is exact: the model holds far fewer than 2^32 *)
(* records.                                                                *)
WrittenFile(entries) ==
    [exists |-> TRUE, version |-> CacheVersion,
     entryCount |-> Len(entries), data |-> entries]

(* Save's result: false without a cache path or when the file cannot be opened *)
SaveOk(path, writable) == path # "" /\ writable

SaveFile(path, entries, f, writable) ==
    IF SaveOk(path, writable) THEN WrittenFile(entries) ELSE f

(* m_entries.resize(entryCount) followed by file.read into m_entries.data():*)
(* the bytes present in the file overwrite the vector, records the file    *)
(* does not hold keep the old value or are value-initialised.              *)
ReadEntries(f, old) ==
    [i \in 1..f.entryCount |->
        IF i <= Len(f.data) THEN f.data[i]
        ELSE IF i <= Len(old) THEN old[i] ELSE ZeroEntry]

FilenamesOf(entries) == {entries[i].filename : i \in 1..Len(entries)}

LoadReads(f) == f.exists /\ f.version = CacheVersion

LoadedEntries(f, old) == IF LoadReads(f) THEN ReadEntries(f, old) ELSE old

LoadedIndex(f, old, oldIndex) ==
    IF LoadReads(f) THEN FilenamesOf(ReadEntries(f, old)) ELSE oldIndex

----------------------------------------------------------------------------
(* DuplicateCache::Check as a function of the cache state *)
CheckResult(entries, index, filename) ==
    IF filename \notin index
    THEN [status |-> "NotSubmitted", firsReference |-> EmptyStr,
          submittedBy |-> EmptyStr, submitTimestamp |-> 0]
    ELSE IF \E i \in 1..Len(entries) : entries[i].filename = filename
    THEN LET i == CHOOSE k \in 1..Len(entries) :
                    /\ entries[k].filename = filename
                    /\ \A j \in 1..(k - 1) : entries[j].filename # filename
         IN [status |-> "AlreadySubmitted",
             firsReference |-> entries[i].firsReference,
             submittedBy |-> entries[i].submittedBy,
             submitTimestamp |-> entries[i].submitTimestamp]
    ELSE [status |-> "AlreadySubmitted", firsReference |-> EmptyStr,
          submittedBy |-> EmptyStr, submitTimestamp |-> 0]

NoResult ==
    [status |-> "none", firsReference |-> EmptyStr,
     submittedBy |-> EmptyStr, submitTimestamp |-> 0]

CheckAll == [f \in CheckNames |-> CheckResult(m_entries, m_filenameIndex, f)]

----------------------------------------------------------------------------
(* Spec: the cache API called from one thread *)

Called(name, arg, b, c) ==
    /\ lastOp' = name
    /\ lastArg' = arg
    /\ retBool' = b
    /\ retCheck' = c
    /\ UNCHANGED <<concVars, ctlVars, syncVars, uiVars>>

SameProcess == preExit' = <<>>

Load(cachePath) ==
    /\ m_cachePath' = cachePath
    /\ m_entries' = LoadedEntries(file, m_entries)
    /\ m_filenameIndex' = LoadedIndex(file, m_entries, m_filenameIndex)
    /\ Called("Load", <<>>, TRUE, NoResult)
    /\ preExit' = IF lastOp = "Exit" THEN preExit ELSE <<>>
    /\ UNCHANGED <<file, added>>

(* A Check that looks the filename up with an inserting accessor *)
CheckInserting(filename) ==
    /\ Called("Check", <<filename>>, FALSE,
              CheckResult(m_entries, m_filenameIndex, filename))
    /\ SameProcess
    /\ m_filenameIndex' = m_filenameIndex \cup {filename}
    /\ UNCHANGED <<m_cachePath, m_entries, file, added>>

Check(filename) ==
    /\ Called("Check", <<filename>>, FALSE,
              CheckResult(m_entries, m_filenameIndex, filename))
    /\ SameProcess
    /\ UNCHANGED <<cacheVars, added>>

(* An AddEntry that takes the record back when Save fails *)
AddEntryRollingBack(filename, firsRef, user, t, writable) ==
    /\ Len(m_entries) < MaxEntries
    /\ IF SaveOk(m_cachePath, writable)
       THEN /\ m_entries' = Append(m_entries, MakeEntry(filename, firsRef, user, t))
            /\ m_filenameIndex' = m_filenameIndex \cup {filename}
            /\ file' = WrittenFile(m_entries')
       ELSE UNCHANGED <<m_entries, m_filenameIndex, file>>
    /\ Called("AddEntry", <<filename, firsRef, user>>, FALSE, NoResult)
    /\ added' = added \cup {filename}
    /\ SameProcess
    /\ UNCHANGED m_cachePath

(* An AddEntry that overwrites the record the filename already has *)
AddEntryReplacing(filename, firsRef, user, t, writable) ==
    LET new == MakeEntry(filename, firsRef, user, t)
        old == {i \in 1..Len(m_entries) : m_entries[i].filename = new.filename}
    IN  /\ Len(m_entries) < MaxEntries
        /\ m_entries' = IF old = {} THEN Append(m_entries, new)
                        ELSE [i \in 1..Len(m_entries) |->
                                 IF i \in old THEN new ELSE m_entries[i]]
        /\ m_filenameIndex' = m_filenameIndex \cup {filename}
        /\ file' = SaveFile(m_cachePath, m_entries', file, writable)
        /\ Called("AddEntry", <<filename, firsRef, user>>, FALSE, NoResult)
        /\ added' = added \cup {filename}
        /\ SameProcess
        /\ UNCHANGED m_cachePath

(* t is the value of time(nullptr), writable whether Save can open the file *)
AddEntry(filename, firsRef, user, t, writable) ==
    /\ Len(m_entries) < MaxEntries
    /\ m_entries' = Append(m_entries, MakeEntry(filename, firsRef, user, t))
    /\ m_filenameIndex' = m_filenameIndex \cup {filename}
    /\ file' = SaveFile(m_cachePath, m_entries', file, writable)
    /\ Called("AddEntry", <<filename, firsRef, user>>, FALSE, NoResult)
    /\ added' = added \cup {filename}
    /\ SameProcess
    /\ UNCHANGED m_cachePath

Save(writable) ==
    /\ file' = SaveFile(m_cachePath, m_entries, file, writable)
    /\ Called("Save", <<>>, SaveOk(m_cachePath, writable), NoResult)
    /\ SameProcess
    /\ UNCHANGED <<m_cachePath, m_entries, m_filenameIndex, added>>

(* One iteration of SyncLoop: the refresh is a placeholder *)
SyncFromDatabase ==
    /\ lastOp # "Sync"
    /\ Called("Sync", <<>>, FALSE, NoResult)
    /\ SameProcess
    /\ UNCHANGED <<cacheVars, added>>

(* The process exits and a new one constructs its DuplicateCache *)
Exit ==
    /\ lastOp # "Exit"
    /\ m_cachePath' = ""
    /\ m_entries' = <<>>
    /\ m_filenameIndex' = {}
    /\ Called("Exit", <<>>, FALSE, NoResult)
    /\ preExit' = <<CheckAll>>
    /\ UNCHANGED <<file, added>>

(* Environment: the cache file is deleted, or replaced by a foreign one *)
Environment(f) ==
    /\ file' = f
    /\ Called("Env", <<>>, FALSE, NoResult)
    /\ SameProcess
    /\ UNCHANGED <<m_cachePath, m_entries, m_filenameIndex, added>>

DeleteFile == file.exists /\ Environment(NoFile)

ReplaceFile == file # ForeignFile /\ Environment(ForeignFile)

ConcIdle ==
    /\ m_mutex = NoThread
    /\ pc = <<>>
    /\ op = <<>>
    /\ entry = <<>>
    /\ header = <<>>
    /\ saveFailed = FALSE
    /\ observed = <<>>

(* No callback has been invoked yet *)
NotNotified == [calls |-> 0, state |-> <<>>]

CtlIdle ==
    /\ notified = NotNotified
    /\ m_buttonState = <<>>
    /\ m_currentPdf = <<>>
    /\ sessionValid = FALSE
    /\ initialized = FALSE
    /\ task = <<>>
    /\ successes = <<>>

(* std::thread{} and m_running{false}: DuplicateCache.h lines 73-74 *)
NoSyncThread == [joinable |-> FALSE, pc |-> "none", i |-> 0]

SyncIdle ==
    /\ m_running = FALSE
    /\ m_syncThread = NoSyncThread
    /\ caller = "idle"
    /\ stops = 0

UiIdle ==
    /\ m_onStateChange = FALSE
    /\ returned = [op |-> "none"]
    /\ setter = <<>>
    /\ snapshot = <<>>

Init ==
    /\ m_cachePath = ""
    /\ m_entries = <<>>
    /\ m_filenameIndex = {}
    /\ file \in {NoFile, ForeignFile}
    /\ lastOp = "Construct"
    /\ lastArg = <<>>
    /\ retBool = FALSE
    /\ retCheck = NoResult
    /\ added = {}
    /\ preExit = <<>>
    /\ ConcIdle
    /\ CtlIdle
    /\ SyncIdle
    /\ UiIdle

Next ==
    \/ Load(CachePath)
    \/ \E f \in CheckNames : Check(f)
    \/ \E in \in Inputs, t \in Times, w \in Writable :
            AddEntry(in[1], in[2], in[3], t, w)
    \/ \E w \in Writable : Save(w)
    \/ SyncFromDatabase
    \/ Exit
    \/ DeleteFile
    \/ ReplaceFile

Spec == Init /\ [][Next]_vars

----------------------------------------------------------------------------
(* Properties of the cache API, checked under Spec *)

NowCheck(filename) == CheckResult(m_entries, m_filenameIndex, filename)

(* C2: after AddEntry(X, ref, user) returns, Check(X) returns              *)
(* AlreadySubmitted with exactly that ref and that user, and Check(Y)      *)
(* returns NotSubmitted for every Y that was never added.                  *)
C2_DuplicateDetection ==
    /\ lastOp = "AddEntry" =>
            /\ NowCheck(lastArg[1]).status = "AlreadySubmitted"
            /\ NowCheck(lastArg[1]).firsReference = lastArg[2]
            /\ NowCheck(lastArg[1]).submittedBy = lastArg[3]
    /\ \A y \in CheckNames \ added : NowCheck(y).status = "NotSubmitted"

(* C3: in every reachable state the index is exactly the set of filename   *)
(* values stored in the records.                                           *)
C3_IndexIsFilenames == m_filenameIndex = FilenamesOf(m_entries)

(* C4: once Save has written the records, a Load of the file into a fresh  *)
(* cache yields the same ordered sequence of records, field by field, and  *)
(* an index equal to the set of their filenames.                           *)
C4_RoundTrip ==
    (lastOp = "Save" /\ retBool) =>
        /\ LoadedEntries(file, <<>>) = m_entries
        /\ LoadedIndex(file, <<>>, {}) = FilenamesOf(m_entries)

C4_Witness ==
    /\ lastOp = "Save"
    /\ retBool
    /\ Len(m_entries) = MaxEntries
    /\ m_entries[1] # m_entries[2]

(* C5: for every filename X, Check(X) just before the process exits equals *)
(* Check(X) after a new process has Loaded the same cache file.            *)
C5_SurvivesRestart ==
    (lastOp = "Load" /\ preExit # <<>>) =>
        \A f \in CheckNames : NowCheck(f) = preExit[1][f]

(* C6: the records hold at most one record per filename value.             *)
C6_OneRecordPerFilename ==
    \A i, j \in 1..Len(m_entries) :
        m_entries[i].filename = m_entries[j].filename => i = j

(* C7: a Check call leaves records, index, cache path and file unchanged   *)
(* and returns what Check returns in the state it leaves; and no step      *)
(* other than AddEntry, Load or a process restart changes what Check       *)
(* returns for any filename.                                               *)
C7_CheckIsPure ==
    [][ /\ lastOp' = "Check" =>
              /\ UNCHANGED cacheVars
              /\ retCheck' = CheckResult(m_entries', m_filenameIndex', lastArg'[1])
        /\ lastOp' \notin {"AddEntry", "Load", "Exit"} =>
              \A f \in CheckNames :
                  CheckResult(m_entries', m_filenameIndex', f) = NowCheck(f)
      ]_vars

C7_Witness ==
    /\ lastOp = "Check"
    /\ retCheck.status = "AlreadySubmitted"
    /\ retCheck.firsReference # EmptyStr
    /\ file.exists

(* C8: when the cache file is missing or its version is not 1, Load       *)
(* returns true and leaves the store empty whatever it held before; and a  *)
(* Save that succeeds leaves a version-1 file whose entry_count is the     *)
(* number of records written.                                              *)
C8_LoadFailOpen ==
    /\ (lastOp = "Load" /\ ~LoadReads(file)) =>
            /\ retBool
            /\ m_entries = <<>>
            /\ m_filenameIndex = {}
    /\ (lastOp = "Save" /\ retBool) =>
            /\ file.version = CacheVersion
            /\ file.entryCount = Len(m_entries)
            /\ Len(file.data) = Len(m_entries)

----------------------------------------------------------------------------
(* SpecConc: threads inside DuplicateCache::AddEntry and                   *)
(* DuplicateCache::Check, one statement per step.  The cache has been      *)
(* Loaded by Initialize (m_cachePath is set, no cache file yet).           *)

Threads == {"t1", "t2"}

NoCall == [kind |-> "none", filename |-> EmptyStr,
           firsRef |-> EmptyStr, user |-> EmptyStr]

At(t, where) == pc[t] = where

Goto(t, where) == pc' = [pc EXCEPT ![t] = where]

(* A lock that does not wait *)
TryLockNoWait(t) == TRUE

(* std::lock_guard<std::mutex> lock(m_mutex): proceeds when no thread holds it *)
TryLock(t) == m_mutex = NoThread

(* A thread calls AddEntry or Check *)
BeginAddEntry(t, filename, firsRef, user) ==
    /\ pc[t] \in {"idle", "done"}
    /\ Len(m_entries)
         + Cardinality({u \in Threads : pc[u] \in {"a_lock", "a_push"}})
         < MaxEntries
    /\ op' = [op EXCEPT ![t] = [kind |-> "AddEntry", filename |-> filename,
                                firsRef |-> firsRef, user |-> user]]
    /\ Goto(t, "a_lock")
    /\ UNCHANGED <<cacheVars, callVars, histVars, ctlVars, syncVars, uiVars,
                   m_mutex, entry, header, saveFailed, observed>>

BeginCheck(t, filename) ==
    /\ pc[t] \in {"idle", "done"}
    /\ op' = [op EXCEPT ![t] = [kind |-> "Check", filename |-> filename,
                                firsRef |-> EmptyStr, user |-> EmptyStr]]
    /\ observed' = [observed EXCEPT ![t] = NoResult]
    /\ Goto(t, "c_lock")
    /\ UNCHANGED <<cacheVars, callVars, histVars, ctlVars, syncVars, uiVars,
                   m_mutex, entry, header, saveFailed>>

(* AddEntry, line 75 *)
AddEntryLock(t) ==
    /\ At(t, "a_lock")
    /\ TryLock(t)
    /\ m_mutex' = t
    /\ Goto(t, "a_push")
    /\ UNCHANGED <<cacheVars, callVars, histVars, ctlVars, syncVars, uiVars,
                   op, entry, header, saveFailed, observed>>

(* AddEntry, lines 77-83: build the CacheEntry and push_back *)
AddEntryPush(t, tm) ==
    /\ At(t, "a_push")
    /\ Len(m_entries) < MaxEntries
    /\ entry' = [entry EXCEPT
                    ![t] = MakeEntry(op[t].filename, op[t].firsRef, op[t].user, tm)]
    /\ m_entries' = Append(m_entries, entry'[t])
    /\ Goto(t, "a_index")
    /\ UNCHANGED <<m_cachePath, m_filenameIndex, file, callVars, histVars,
                   ctlVars, syncVars, uiVars, m_mutex, op, header, saveFailed, observed>>

(* An AddEntry whose lock_guard covers only the in-memory update *)
AddEntryIndexUnlocking(t) ==
    /\ At(t, "a_index")
    /\ m_filenameIndex' = m_filenameIndex \cup {op[t].filename}
    /\ m_mutex' = NoThread
    /\ Goto(t, "s_open")
    /\ UNCHANGED <<m_cachePath, m_entries, file, callVars, histVars, ctlVars, syncVars, uiVars,
                   op, entry, header, saveFailed, observed>>

(* AddEntry, line 84 *)
AddEntryIndex(t) ==
    /\ At(t, "a_index")
    /\ m_filenameIndex' = m_filenameIndex \cup {op[t].filename}
    /\ Goto(t, "s_open")
    /\ UNCHANGED <<m_cachePath, m_entries, file, callVars, histVars, ctlVars, syncVars, uiVars,
                   m_mutex, op, entry, header, saveFailed, observed>>

(* Where Save returns to: into AddEntry (line 87), or to the caller of the *)
(* public Save                                                             *)
SaveExit(t) == IF op[t].kind = "Save" THEN "done" ELSE "a_return"

(* Save, lines 91-94: no path or no file handle returns false; opening     *)
(* with ios::trunc empties the file.  An empty file reads as version 1     *)
(* with no records: Load's header keeps its default members.               *)
SaveOpen(t, writable) ==
    /\ At(t, "s_open")
    /\ IF SaveOk(m_cachePath, writable)
       THEN /\ file' = WrittenFile(<<>>)
            /\ Goto(t, "s_header")
            /\ UNCHANGED saveFailed
       ELSE /\ saveFailed' = TRUE
            /\ Goto(t, SaveExit(t))
            /\ UNCHANGED file
    /\ UNCHANGED <<m_cachePath, m_entries, m_filenameIndex, callVars, histVars,
                   ctlVars, syncVars, uiVars, m_mutex, op, entry, header, observed>>

(* Save, lines 96-99: the header takes the record count *)
SaveHeader(t) ==
    /\ At(t, "s_header")
    /\ header' = [header EXCEPT ![t] = Len(m_entries)]
    /\ Goto(t, "s_write")
    /\ UNCHANGED <<cacheVars, callVars, histVars, ctlVars, syncVars, uiVars,
                   m_mutex, op, entry, saveFailed, observed>>

(* Save, lines 101-105: header and records go to the file *)
SaveWrite(t) ==
    /\ At(t, "s_write")
    /\ file' = [WrittenFile(m_entries) EXCEPT !.entryCount = header[t]]
    /\ Goto(t, SaveExit(t))
    /\ UNCHANGED <<m_cachePath, m_entries, m_filenameIndex, callVars, histVars,
                   ctlVars, syncVars, uiVars, m_mutex, op, entry, header, saveFailed, observed>>

(* AddEntry, line 88: the lock_guard goes out of scope *)
AddEntryReturn(t) ==
    /\ At(t, "a_return")
    /\ m_mutex' = NoThread
    /\ Goto(t, "done")
    /\ UNCHANGED <<cacheVars, callVars, histVars, ctlVars, syncVars, uiVars,
                   op, entry, header, saveFailed, observed>>

(* Check, line 50 *)
CheckLock(t) ==
    /\ At(t, "c_lock")
    /\ TryLock(t)
    /\ m_mutex' = t
    /\ Goto(t, "c_read")
    /\ UNCHANGED <<cacheVars, callVars, histVars, ctlVars, syncVars, uiVars,
                   op, entry, header, saveFailed, observed>>

(* Check, lines 52-71: the lookup, and the lock_guard released on return *)
CheckRead(t) ==
    /\ At(t, "c_read")
    /\ observed' = [observed EXCEPT
                       ![t] = CheckResult(m_entries, m_filenameIndex, op[t].filename)]
    /\ m_mutex' = NoThread
    /\ Goto(t, "done")
    /\ UNCHANGED <<cacheVars, callVars, histVars, ctlVars, syncVars, uiVars,
                   op, entry, header, saveFailed>>

InitConc ==
    /\ m_cachePath = CachePath
    /\ m_entries = <<>>
    /\ m_filenameIndex = {}
    /\ file = NoFile
    /\ lastOp = "Load"
    /\ lastArg = <<>>
    /\ retBool = TRUE
    /\ retCheck = NoResult
    /\ added = {}
    /\ preExit = <<>>
    /\ m_mutex = NoThread
    /\ pc = [t \in Threads |-> "idle"]
    /\ op = [t \in Threads |-> NoCall]
    /\ entry = [t \in Threads |-> ZeroEntry]
    /\ header = [t \in Threads |-> 0]
    /\ saveFailed = FALSE
    /\ observed = [t \in Threads |-> NoResult]
    /\ CtlIdle
    /\ SyncIdle
    /\ UiIdle

NextConc ==
    \E t \in Threads :
        \/ \E in \in Inputs : BeginAddEntry(t, in[1], in[2], in[3])
        \/ \E f \in CheckNames : BeginCheck(t, f)
        \/ AddEntryLock(t)
        \/ \E tm \in Times : AddEntryPush(t, tm)
        \/ AddEntryIndex(t)
        \/ \E w \in Writable : SaveOpen(t, w)
        \/ SaveHeader(t)
        \/ SaveWrite(t)
        \/ AddEntryReturn(t)
        \/ CheckLock(t)
        \/ CheckRead(t)

SpecConc == InitConc /\ [][NextConc]_vars

(* Properties of concurrent calls, checked under SpecConc *)

OnDisk == LoadedEntries(file, <<>>)

InRecords(e, records) == \E i \in 1..Len(records) : records[i] = e

Returned(t) == pc[t] = "done" /\ op[t].kind = "AddEntry"

----------------------------------------------------------------------------
(* Every public operation of DuplicateCache called from any thread:        *)
(* SpecConc's AddEntry and Check, and also Load and the public Save.       *)

(* A thread calls the public Save (DuplicateCache.h line 58): Save takes   *)
(* no lock of its own                                                      *)
BeginSave(t) ==
    /\ pc[t] \in {"idle", "done"}
    /\ op' = [op EXCEPT ![t] = [kind |-> "Save", filename |-> EmptyStr,
                                firsRef |-> EmptyStr, user |-> EmptyStr]]
    /\ Goto(t, "s_open")
    /\ UNCHANGED <<cacheVars, callVars, histVars, ctlVars, syncVars, uiVars,
                   m_mutex, entry, header, saveFailed, observed>>

(* A thread calls Load *)
BeginLoad(t) ==
    /\ pc[t] \in {"idle", "done"}
    /\ op' = [op EXCEPT ![t] = [kind |-> "Load", filename |-> EmptyStr,
                                firsRef |-> EmptyStr, user |-> EmptyStr]]
    /\ Goto(t, "l_path")
    /\ UNCHANGED <<cacheVars, callVars, histVars, ctlVars, syncVars, uiVars,
                   m_mutex, entry, header, saveFailed, observed>>

(* Load, line 17: m_cachePath = cachePath, before the lock_guard *)
LoadPath(t) ==
    /\ At(t, "l_path")
    /\ m_cachePath' = CachePath
    /\ Goto(t, "l_lock")
    /\ UNCHANGED <<m_entries, m_filenameIndex, file, callVars, histVars, ctlVars, syncVars, uiVars,
                   m_mutex, op, entry, header, saveFailed, observed>>

(* Load, line 18 *)
LoadLock(t) ==
    /\ At(t, "l_lock")
    /\ TryLock(t)
    /\ m_mutex' = t
    /\ Goto(t, "l_read")
    /\ UNCHANGED <<cacheVars, callVars, histVars, ctlVars, syncVars, uiVars,
                   op, entry, header, saveFailed, observed>>

(* Load, lines 20-45: the file is read, and the lock_guard released *)
LoadRead(t) ==
    /\ At(t, "l_read")
    /\ m_entries' = LoadedEntries(file, m_entries)
    /\ m_filenameIndex' = LoadedIndex(file, m_entries, m_filenameIndex)
    /\ m_mutex' = NoThread
    /\ Goto(t, "done")
    /\ UNCHANGED <<m_cachePath, file, callVars, histVars, ctlVars, syncVars, uiVars,
                   op, entry, header, saveFailed, observed>>

(* The cache as its constructor leaves it *)
InitPub ==
    /\ m_cachePath = ""
    /\ m_entries = <<>>
    /\ m_filenameIndex = {}
    /\ file = NoFile
    /\ lastOp = "Construct"
    /\ lastArg = <<>>
    /\ retBool = FALSE
    /\ retCheck = NoResult
    /\ added = {}
    /\ preExit = <<>>
    /\ m_mutex = NoThread
    /\ pc = [t \in Threads |-> "idle"]
    /\ op = [t \in Threads |-> NoCall]
    /\ entry = [t \in Threads |-> ZeroEntry]
    /\ header = [t \in Threads |-> 0]
    /\ saveFailed = FALSE
    /\ observed = [t \in Threads |-> NoResult]
    /\ CtlIdle
    /\ SyncIdle
    /\ UiIdle

(* The calls the threads make *)
PubInputs     == {<<NameA, Ref1, User1>>}
PubCheckNames == {NameA}

NextPub ==
    \E t \in Threads :
        \/ \E in \in PubInputs : BeginAddEntry(t, in[1], in[2], in[3])
        \/ \E f \in PubCheckNames : BeginCheck(t, f)
        \/ BeginSave(t)
        \/ BeginLoad(t)
        \/ AddEntryLock(t)
        \/ \E tm \in {1} : AddEntryPush(t, tm)
        \/ AddEntryIndex(t)
        \/ \E w \in Writable : SaveOpen(t, w)
        \/ SaveHeader(t)
        \/ SaveWrite(t)
        \/ AddEntryReturn(t)
        \/ CheckLock(t)
        \/ CheckRead(t)
        \/ LoadPath(t)
        \/ LoadLock(t)
        \/ LoadRead(t)

SpecPub == InitPub /\ [][NextPub]_vars

(* Thread t is inside code that reads or writes the records, the index,    *)
(* the cache path or the file: its next statement is such an access        *)
Accessing(t) ==
    pc[t] \in {"a_push", "a_index", "s_open", "s_header", "s_write",
               "c_read", "l_path", "l_read"}

(* C11: every read and write of the records, the index, the cache path and *)
(* the file, by Load, Check, AddEntry or Save, happens while the calling   *)
(* thread holds m_mutex, so no two threads are inside such code at once.   *)
C11_AllUnderMutex ==
    /\ \A t \in Threads : Accessing(t) => m_mutex = t
    /\ \A t, u \in Threads : Accessing(t) /\ Accessing(u) => t = u


----------------------------------------------------------------------------
(* SpecSync: the background loop.  One thread owns the cache and calls     *)
(* StartBackgroundSync and StopBackgroundSync and, at the end, the         *)
(* destructor; the thread created by Start runs SyncLoop one statement     *)
(* per step.                                                               *)

MaxStops  == 3          \* StopBackgroundSync calls before the destructor's
SyncPolls == 600        \* SyncLoop: Sleep(100) this many times between syncs

SyncFrame == UNCHANGED <<cacheVars, callVars, histVars, concVars, ctlVars, uiVars>>

(* StartBackgroundSync, lines 108-112.  Assigning to a std::thread that is *)
(* still joinable ends the program, so Start is called when it is not.     *)
StartBackgroundSync ==
    /\ caller = "idle"
    /\ stops < MaxStops
    /\ ~m_syncThread.joinable
    /\ m_running' = TRUE
    /\ m_syncThread' = [joinable |-> TRUE, pc |-> "while", i |-> 0]
    /\ SyncFrame
    /\ UNCHANGED <<caller, stops>>

(* StopBackgroundSync, line 115: m_running = false *)
StopFlag ==
    /\ caller = "idle"
    /\ stops < MaxStops
    /\ m_running' = FALSE
    /\ caller' = "stop_join"
    /\ SyncFrame
    /\ UNCHANGED <<m_syncThread, stops>>

(* ~DuplicateCache, lines 12-14: the last StopBackgroundSync *)
Destructor ==
    /\ caller = "idle"
    /\ m_running' = FALSE
    /\ caller' = "dtor_join"
    /\ SyncFrame
    /\ UNCHANGED <<m_syncThread, stops>>

(* What the caller does when StopBackgroundSync returns *)
AfterStop == IF caller = "dtor_join" THEN "destroyed" ELSE "idle"

(* A StopBackgroundSync that does not wait for the thread *)
StopJoinDetaching ==
    /\ caller \in {"stop_join", "dtor_join"}
    /\ m_syncThread' = [m_syncThread EXCEPT !.joinable = FALSE]
    /\ caller' = AfterStop
    /\ stops' = stops + 1
    /\ SyncFrame
    /\ UNCHANGED m_running

(* StopBackgroundSync, lines 116-119: join blocks until SyncLoop returned *)
StopJoin ==
    /\ caller \in {"stop_join", "dtor_join"}
    /\ m_syncThread.joinable => m_syncThread.pc = "exited"
    /\ m_syncThread' = [m_syncThread EXCEPT !.joinable = FALSE]
    /\ caller' = AfterStop
    /\ stops' = stops + 1
    /\ SyncFrame
    /\ UNCHANGED m_running

LoopGoto(where) == m_syncThread' = [m_syncThread EXCEPT !.pc = where]

(* SyncLoop, line 122: while (m_running) *)
LoopWhile ==
    /\ m_syncThread.pc = "while"
    /\ LoopGoto(IF m_running THEN "init" ELSE "exited")
    /\ SyncFrame
    /\ UNCHANGED <<m_running, caller, stops>>

(* line 124: int i = 0 *)
LoopInit ==
    /\ m_syncThread.pc = "init"
    /\ m_syncThread' = [m_syncThread EXCEPT !.pc = "for", !.i = 0]
    /\ SyncFrame
    /\ UNCHANGED <<m_running, caller, stops>>

(* line 124: i < 600 && m_running *)
LoopFor ==
    /\ m_syncThread.pc = "for"
    /\ LoopGoto(IF m_syncThread.i < SyncPolls /\ m_running THEN "sleep" ELSE "if")
    /\ SyncFrame
    /\ UNCHANGED <<m_running, caller, stops>>

(* lines 125 and 124: Sleep(100); i++ *)
LoopSleep ==
    /\ m_syncThread.pc = "sleep"
    /\ m_syncThread' = [m_syncThread EXCEPT !.pc = "for", !.i = @ + 1]
    /\ SyncFrame
    /\ UNCHANGED <<m_running, caller, stops>>

(* line 127: if (m_running) *)
LoopIf ==
    /\ m_syncThread.pc = "if"
    /\ LoopGoto(IF m_running THEN "sync" ELSE "while")
    /\ SyncFrame
    /\ UNCHANGED <<m_running, caller, stops>>

(* line 128: SyncFromDatabase(), whose body (lines 133-146) is empty *)
LoopSync ==
    /\ m_syncThread.pc = "sync"
    /\ LoopGoto("while")
    /\ SyncFrame
    /\ UNCHANGED <<m_running, caller, stops>>

LoopStep == LoopWhile \/ LoopInit \/ LoopFor \/ LoopSleep \/ LoopIf \/ LoopSync

InitSync ==
    /\ m_cachePath = ""
    /\ m_entries = <<>>
    /\ m_filenameIndex = {}
    /\ file = NoFile
    /\ lastOp = "Construct"
    /\ lastArg = <<>>
    /\ retBool = FALSE
    /\ retCheck = NoResult
    /\ added = {}
    /\ preExit = <<>>
    /\ ConcIdle
    /\ CtlIdle
    /\ SyncIdle
    /\ UiIdle

NextSync ==
    \/ StartBackgroundSync
    \/ StopFlag
    \/ Destructor
    \/ StopJoin
    \/ LoopWhile
    \/ LoopInit
    \/ LoopFor
    \/ LoopSleep
    \/ LoopIf
    \/ LoopSync

(* The created thread is scheduled and Sleep(100) returns; a caller inside *)
(* StopBackgroundSync goes on when join lets it.                           *)
SpecSync ==
    /\ InitSync
    /\ [][NextSync]_vars
    /\ WF_vars(LoopStep)
    /\ WF_vars(StopJoin)

InStop == caller \in {"stop_join", "dtor_join"}

LoopGone == ~m_syncThread.joinable /\ m_syncThread.pc \in {"none", "exited"}

(* C12: StopBackgroundSync can be called any number of times, with or      *)
(* without a StartBackgroundSync before it, and from the destructor: every *)
(* call returns, and when it returns the loop thread has exited; a thread  *)
(* that is not joinable any more runs no statement of SyncLoop.            *)
C12_StopJoinsLoop ==
    /\ [][InStop /\ ~InStop' => LoopGone']_vars
    /\ [](m_syncThread.joinable \/ m_syncThread.pc \in {"none", "exited"})
    /\ [][~m_syncThread.joinable /\ ~m_syncThread'.joinable
            => m_syncThread' = m_syncThread]_vars
    /\ (InStop ~> ~InStop)

C12_Witness ==
    /\ caller = "destroyed"
    /\ stops = MaxStops + 1
    /\ m_syncThread.pc = "exited"
    /\ ~m_syncThread.joinable
    /\ m_syncThread.i > 0

----------------------------------------------------------------------------
(* SpecCtl: HeliumController.  OnSubmitClicked starts a detached task;     *)
(* the tasks run one statement per step, interleaved with OnPdfOpened on   *)
(* the foreground path.  Check and AddEntry hold m_mutex from entry to     *)
(* return, so each is one step here.                                       *)

Tasks == 1..MaxTasks

(* Paths are sequences of characters (ASCII, so WideCharToMultiByte keeps  *)
(* them as they are)                                                       *)
Paths == {<<"d", "/", "a">>, <<"e", "\\", "a">>, <<"b">>}

Max(S) == CHOOSE m \in S : \A n \in S : n <= m

(* An identity that keeps the directory: the whole path *)
ExtractFilenameWhole(path) == Str(0, path)

(* ExtractFilename: the text after the last slash or backslash *)
ExtractFilename(path) ==
    LET slashes == {i \in 1..Len(path) : path[i] \in {"\\", "/"}}
    IN  IF slashes = {}
        THEN Str(0, path)
        ELSE Str(0, SubSeq(path, Max(slashes) + 1, Len(path)))

BaseNames == {ExtractFilename(p) : p \in Paths}

(* SessionToken::Load *)
SessionErrors == {"No session found (not logged in)", "Session expired"}

ValidSession == [valid |-> TRUE, username |-> User1, error |-> ""]

InvalidSession(err) == [valid |-> FALSE, username |-> EmptyStr, error |-> err]

NoSessionInfo == [valid |-> FALSE, username |-> EmptyStr, error |-> ""]

(* What SessionToken::Load returns; err is the reason it gives when the   *)
(* session is not valid                                                    *)
LoadSession(err) == IF sessionValid THEN ValidSession ELSE InvalidSession(err)

(* RelayClient::SubmitInvoice: what the relay answers *)
RelayOutcomes ==
    {[success |-> TRUE, firsReference |-> Ref1, error |-> "", httpStatus |-> 200],
     [success |-> FALSE, firsReference |-> EmptyStr,
      error |-> "Invoice already submitted (duplicate)", httpStatus |-> 409],
     [success |-> FALSE, firsReference |-> EmptyStr,
      error |-> "Daily submission limit exceeded", httpStatus |-> 429]}

NoSubmitResult ==
    [success |-> FALSE, firsReference |-> EmptyStr, error |-> "", httpStatus |-> 0]

RouteDecisions == {"Invoice", "NotInvoice", "Unknown"}

(* The record one earlier run of the program left in the cache file *)
PriorFile == WrittenFile(<<MakeEntry(Str(0, <<"b">>), Ref1, User1, 1)>>)

IdleTask ==
    [pc |-> "idle", path |-> <<>>, session |-> NoSessionInfo,
     filename |-> EmptyStr, result |-> NoSubmitResult,
     calls |-> 0]            \* history: SubmitInvoice calls of this task

(* HeliumController::SetState: the three fields, then the callback if one  *)
(* is registered                                                           *)
SetState(state, label, tooltip) ==
    /\ m_buttonState' = [state |-> state, label |-> label, tooltip |-> tooltip]
    /\ notified' = IF m_onStateChange
                   THEN [calls |-> 1 - notified.calls, state |-> m_buttonState']
                   ELSE notified

SubmittedByTooltip(dupCheck) ==
    <<"Submitted by ", dupCheck.submittedBy, " (Ref: ", dupCheck.firsReference, ")">>

(* A recomputation that looks at the session before the cache *)
RefreshButtonStateSessionFirst(pdfPath) ==
    LET dupCheck == CheckResult(m_entries, m_filenameIndex, ExtractFilename(pdfPath))
    IN  IF ~sessionValid
        THEN SetState("NoSession", "Sign In Required", <<"Open Float to sign in">>)
        ELSE IF dupCheck.status = "AlreadySubmitted"
        THEN SetState("AlreadySubmitted", "Already Submitted",
                      SubmittedByTooltip(dupCheck))
        ELSE SetState("Ready", "Submit to FIRS",
                      <<"Send this invoice to FIRS for processing">>)

(* HeliumController::RefreshButtonState *)
RefreshButtonState(pdfPath) ==
    LET dupCheck == CheckResult(m_entries, m_filenameIndex, ExtractFilename(pdfPath))
    IN  IF dupCheck.status = "AlreadySubmitted"
        THEN SetState("AlreadySubmitted", "Already Submitted",
                      SubmittedByTooltip(dupCheck))
        ELSE IF ~sessionValid
        THEN SetState("NoSession", "Sign In Required", <<"Open Float to sign in">>)
        ELSE SetState("Ready", "Submit to FIRS",
                      <<"Send this invoice to FIRS for processing">>)

(* An Initialize that asks the relay before it looks at the session *)
InitializeResultProbing(relayUp) ==
    IF ~relayUp
    THEN [state |-> "FloatNotRunning", label |-> "Start Float",
          tooltip |-> <<"Helium Float must be running to submit invoices">>,
          value |-> TRUE, probes |-> 1]
    ELSE IF ~sessionValid
    THEN [state |-> "NoSession", label |-> "Sign In Required",
          tooltip |-> <<"Open Float to sign in to your Helium account">>,
          value |-> TRUE, probes |-> 1]
    ELSE [state |-> "Ready", label |-> "Submit to FIRS",
          tooltip |-> <<"Send this invoice to FIRS for processing">>,
          value |-> TRUE, probes |-> 1]

(* HeliumController::Initialize; relayUp is what IsRelayAvailable returns. *)
(* The ButtonState it sets, the value it returns and the number of times   *)
(* it asks IsRelayAvailable                                                *)
InitializeResult(relayUp) ==
    IF ~sessionValid
    THEN [state |-> "NoSession", label |-> "Sign In Required",
          tooltip |-> <<"Open Float to sign in to your Helium account">>,
          value |-> TRUE, probes |-> 0]
    ELSE IF ~relayUp
    THEN [state |-> "FloatNotRunning", label |-> "Start Float",
          tooltip |-> <<"Helium Float must be running to submit invoices">>,
          value |-> TRUE, probes |-> 1]
    ELSE [state |-> "Ready", label |-> "Submit to FIRS",
          tooltip |-> <<"Send this invoice to FIRS for processing">>,
          value |-> TRUE, probes |-> 1]

(* What a call of Initialize does to the controller *)
InitializeCall(relayUp) ==
    /\ initialized' = TRUE
    /\ m_cachePath' = CachePath
    /\ m_entries' = LoadedEntries(file, m_entries)
    /\ m_filenameIndex' = LoadedIndex(file, m_entries, m_filenameIndex)
    /\ LET r == InitializeResult(relayUp) IN SetState(r.state, r.label, r.tooltip)

Initialize(relayUp) ==
    /\ ~initialized
    /\ InitializeCall(relayUp)
    /\ UNCHANGED <<file, callVars, histVars, concVars, syncVars, uiVars,
                   m_currentPdf, sessionValid, task, successes>>

(* An OnPdfOpened that recomputes the ButtonState whatever the decision *)
OnPdfOpenedCallRefreshing(pdfPath, decision) ==
    /\ m_currentPdf' = pdfPath
    /\ RefreshButtonState(pdfPath)

(* HeliumController::OnPdfOpened; decision is what InvoiceRouter::Route    *)
(* returns.  What a call does to the controller                            *)
OnPdfOpenedCall(pdfPath, decision) ==
    /\ m_currentPdf' = pdfPath
    /\ IF decision \in {"Invoice", "Unknown"}
       THEN RefreshButtonState(pdfPath)
       ELSE UNCHANGED <<m_buttonState, notified>>

OnPdfOpened(pdfPath, decision) ==
    /\ initialized
    /\ OnPdfOpenedCall(pdfPath, decision)
    /\ UNCHANGED <<cacheVars, callVars, histVars, concVars, syncVars, uiVars,
                   sessionValid, initialized, task, successes>>

(* The task's thread has ended; its locals are gone *)
DoneTask == [IdleTask EXCEPT !.pc = "done"]

TaskGoto(k, where) ==
    task' = [task EXCEPT ![k] = IF where = "done" THEN DoneTask
                                ELSE [@ EXCEPT !.pc = where]]

CtlFrame == UNCHANGED <<callVars, histVars, concVars, syncVars, uiVars, m_currentPdf,
                        sessionValid, initialized>>

(* HeliumController::OnSubmitClicked, line 62: the task is started *)
OnSubmitClicked(k, currentPdfPath) ==
    /\ initialized
    /\ task[k].pc = "idle"
    /\ task' = [task EXCEPT ![k].pc = "session", ![k].path = currentPdfPath]
    /\ CtlFrame
    /\ UNCHANGED <<cacheVars, m_buttonState, notified, successes>>

(* A task that reports the missing session and goes on to the check *)
TaskSessionGoingOn(k, err) ==
    /\ task[k].pc = "session"
    /\ LET session == LoadSession(err)
       IN  /\ task' = [task EXCEPT ![k].pc = "check", ![k].session = session]
           /\ IF ~session.valid
              THEN SetState("NoSession", "Sign In Required", <<session.error>>)
              ELSE UNCHANGED <<m_buttonState, notified>>
    /\ CtlFrame
    /\ UNCHANGED <<cacheVars, successes>>

(* lines 63-70: 1. check session *)
TaskSession(k, err) ==
    /\ task[k].pc = "session"
    /\ LET session == LoadSession(err)
       IN  IF ~session.valid
           THEN /\ SetState("NoSession", "Sign In Required", <<session.error>>)
                /\ TaskGoto(k, "done")
           ELSE /\ task' = [task EXCEPT ![k].pc = "check", ![k].session = session]
                /\ UNCHANGED <<m_buttonState, notified>>
    /\ CtlFrame
    /\ UNCHANGED <<cacheVars, successes>>

(* A task that reports the duplicate and goes on to submit *)
TaskCheckGoingOn(k) ==
    /\ task[k].pc = "check"
    /\ LET filename == ExtractFilename(task[k].path)
           dupCheck == CheckResult(m_entries, m_filenameIndex, filename)
       IN  /\ task' = [task EXCEPT ![k].pc = "submitting",
                                   ![k].filename = filename]
           /\ IF dupCheck.status = "AlreadySubmitted"
              THEN SetState("AlreadySubmitted", "Already Submitted",
                            SubmittedByTooltip(dupCheck))
              ELSE UNCHANGED <<m_buttonState, notified>>
    /\ CtlFrame
    /\ UNCHANGED <<cacheVars, successes>>

(* lines 72-81: 2. check duplicate *)
TaskCheck(k) ==
    /\ task[k].pc = "check"
    /\ LET filename == ExtractFilename(task[k].path)
           dupCheck == CheckResult(m_entries, m_filenameIndex, filename)
       IN  IF dupCheck.status = "AlreadySubmitted"
           THEN /\ SetState("AlreadySubmitted", "Already Submitted",
                            SubmittedByTooltip(dupCheck))
                /\ TaskGoto(k, "done")
           ELSE /\ task' = [task EXCEPT ![k].pc = "submitting",
                                        ![k].filename = filename]
                /\ UNCHANGED <<m_buttonState, notified>>
    /\ CtlFrame
    /\ UNCHANGED <<cacheVars, successes>>

(* lines 84-86: 3. submit via relay *)
TaskSubmitting(k) ==
    /\ task[k].pc = "submitting"
    /\ SetState("Submitting", "Submitting...",
                <<"Sending to Helium Relay for FIRS processing">>)
    /\ TaskGoto(k, "relay")
    /\ CtlFrame
    /\ UNCHANGED <<cacheVars, successes>>

(* A task that calls the transport a second time when the first call fails *)
TaskRelayRetrying(k, outcome) ==
    /\ task[k].pc = "relay"
    /\ task' = [task EXCEPT ![k].pc = IF outcome.success THEN "record"
                                      ELSE IF task[k].calls = 0 THEN "relay"
                                      ELSE "failed",
                            ![k].result = outcome,
                            ![k].calls = @ + 1]
    /\ successes' = IF outcome.success
                    THEN [successes EXCEPT ![task[k].filename] = @ + 1]
                    ELSE successes
    /\ CtlFrame
    /\ UNCHANGED <<cacheVars, m_buttonState, notified>>

(* lines 88-92: the transport call and its outcome *)
TaskRelay(k, outcome) ==
    /\ task[k].pc = "relay"
    /\ task' = [task EXCEPT ![k].pc = IF outcome.success THEN "record" ELSE "failed",
                            ![k].result = outcome,
                            ![k].calls = @ + 1]
    /\ successes' = IF outcome.success
                    THEN [successes EXCEPT ![task[k].filename] = @ + 1]
                    ELSE successes
    /\ CtlFrame
    /\ UNCHANGED <<cacheVars, m_buttonState, notified>>

(* A task that publishes Success without the cache commit *)
TaskAddEntrySkipping(k, tm, writable) ==
    /\ task[k].pc = "record"
    /\ TaskGoto(k, "success")
    /\ CtlFrame
    /\ UNCHANGED <<cacheVars, m_buttonState, notified, successes>>

(* line 94: 4. record in cache *)
TaskAddEntry(k, tm, writable) ==
    /\ task[k].pc = "record"
    /\ m_entries' = Append(m_entries,
                           MakeEntry(task[k].filename, task[k].result.firsReference,
                                     task[k].session.username, tm))
    /\ m_filenameIndex' = m_filenameIndex \cup {task[k].filename}
    /\ file' = SaveFile(m_cachePath, m_entries', file, writable)
    /\ TaskGoto(k, "success")
    /\ CtlFrame
    /\ UNCHANGED <<m_cachePath, m_buttonState, notified, successes>>

(* lines 96-98 *)
TaskSuccess(k) ==
    /\ task[k].pc = "success"
    /\ SetState("Success", "Submitted!",
                <<"FIRS Reference: ", task[k].result.firsReference>>)
    /\ TaskGoto(k, "sleep3")
    /\ CtlFrame
    /\ UNCHANGED <<cacheVars, successes>>

(* A task that offers the button again after a success *)
TaskRevertSubmittedToReady(k) ==
    /\ task[k].pc = "sleep3"
    /\ SetState("Ready", "Submit to FIRS", <<"Click to retry submission">>)
    /\ TaskGoto(k, "done")
    /\ CtlFrame
    /\ UNCHANGED <<cacheVars, successes>>

(* lines 101-104: after Sleep(3000) *)
TaskRevertSubmitted(k) ==
    /\ task[k].pc = "sleep3"
    /\ SetState("AlreadySubmitted", "Already Submitted",
                <<"FIRS Reference: ", task[k].result.firsReference>>)
    /\ TaskGoto(k, "done")
    /\ CtlFrame
    /\ UNCHANGED <<cacheVars, successes>>

(* lines 106-108 *)
TaskError(k) ==
    /\ task[k].pc = "failed"
    /\ SetState("Error", "Submit Failed", <<task[k].result.error>>)
    /\ TaskGoto(k, "sleep5")
    /\ CtlFrame
    /\ UNCHANGED <<cacheVars, successes>>

(* A task that ends after the 5 s sleep without a further SetState *)
TaskRevertReadyLeaving(k) ==
    /\ task[k].pc = "sleep5"
    /\ TaskGoto(k, "done")
    /\ CtlFrame
    /\ UNCHANGED <<cacheVars, m_buttonState, notified, successes>>

(* lines 111-114: after Sleep(5000) *)
TaskRevertReady(k) ==
    /\ task[k].pc = "sleep5"
    /\ SetState("Ready", "Submit to FIRS", <<"Click to retry submission">>)
    /\ TaskGoto(k, "done")
    /\ CtlFrame
    /\ UNCHANGED <<cacheVars, successes>>

(* Environment: the user signs in with Float, or the session expires *)
SessionChange ==
    /\ sessionValid' = ~sessionValid
    /\ UNCHANGED <<cacheVars, callVars, histVars, concVars, syncVars, uiVars, m_buttonState, notified,
                   m_currentPdf, initialized, task, successes>>

InitCtl ==
    /\ m_cachePath = ""
    /\ m_entries = <<>>
    /\ m_filenameIndex = {}
    /\ file \in {NoFile, PriorFile}
    /\ lastOp = "Construct"
    /\ lastArg = <<>>
    /\ retBool = FALSE
    /\ retCheck = NoResult
    /\ added = {}
    /\ preExit = <<>>
    /\ ConcIdle
    /\ SyncIdle
    /\ UiIdle
    /\ m_buttonState = [state |-> "Checking", label |-> "Checking...",
                        tooltip |-> <<"Verifying session and connection">>]
    /\ m_currentPdf = <<>>
    /\ sessionValid \in BOOLEAN
    /\ initialized = FALSE
    /\ task = [k \in Tasks |-> IdleTask]
    /\ successes = [f \in BaseNames |-> 0]
    /\ notified = NotNotified

NextCtl ==
    \/ \E relayUp \in BOOLEAN : Initialize(relayUp)
    \/ \E p \in Paths, d \in RouteDecisions : OnPdfOpened(p, d)
    \/ SessionChange
    \/ \E k \in Tasks :
        \/ \E p \in Paths : OnSubmitClicked(k, p)
        \/ \E err \in SessionErrors : TaskSession(k, err)
        \/ TaskCheck(k)
        \/ TaskSubmitting(k)
        \/ \E outcome \in RelayOutcomes : TaskRelay(k, outcome)
        \/ \E tm \in Times, w \in Writable : TaskAddEntry(k, tm, w)
        \/ TaskSuccess(k)
        \/ TaskRevertSubmitted(k)
        \/ TaskError(k)
        \/ TaskRevertReady(k)

SpecCtl == InitCtl /\ [][NextCtl]_vars

(* Properties of the controller, checked under SpecCtl *)

(* C1: for every base filename the submission transport is invoked with a  *)
(* successful outcome at most once, in every interleaving of submission    *)
(* tasks and OnPdfOpened events.                                           *)
C1_SubmittedAtMostOnce == \A f \in BaseNames : successes[f] <= 1

(* Positions of a task after its session check *)
PastSession == {"check", "submitting", "relay", "record", "success", "sleep3",
                "failed", "sleep5"}

(* The step is one of task k *)
StepOf(k) == task'[k] # task[k]

(* C13: a task whose session load (the first thing it does) finds no valid *)
(* session sets NoSession with the session's error text and ends, leaving  *)
(* the cache and the count of transport calls as they are; an ended task   *)
(* does nothing more, and every task past its session check holds a valid  *)
(* session.                                                                *)
C13_NoSessionStops ==
    [][\A k \in Tasks :
        /\ (task[k].pc = "session" /\ StepOf(k) /\ ~sessionValid)
           => /\ task'[k] = DoneTask
              /\ m_buttonState'.state = "NoSession"
              /\ m_buttonState'.tooltip \in {<<e>> : e \in SessionErrors}
              /\ UNCHANGED <<cacheVars, successes>>
        /\ task[k].pc = "done" => ~StepOf(k)
        /\ task'[k].pc \in PastSession => task'[k].session.valid]_vars

C13_Witness ==
    /\ task[1].pc = "done"
    /\ task[2].pc = "idle"
    /\ m_buttonState.state = "NoSession"
    /\ m_buttonState.tooltip = <<"Session expired">>
    /\ m_entries = <<>>
    /\ \A f \in BaseNames : successes[f] = 0


(* The records of the cache with this filename, and the first of them *)
RecordsOf(filename) == {i \in 1..Len(m_entries) : m_entries[i].filename = filename}

FirstRecord(filename) ==
    m_entries[CHOOSE i \in RecordsOf(filename) : \A j \in RecordsOf(filename) : i <= j]

(* C14: a task with a valid session whose duplicate check finds a record   *)
(* with the document's base filename sets AlreadySubmitted, with the       *)
(* submitter and the reference of that record in the tooltip, and ends,    *)
(* leaving the cache and the count of transport calls as they are.         *)
C14_DuplicateStops ==
    [][\A k \in Tasks :
        LET filename == ExtractFilename(task[k].path)
        IN  ( /\ task[k].pc = "check"
              /\ StepOf(k)
              /\ task[k].session.valid
              /\ RecordsOf(filename) # {} )
            => /\ task'[k] = DoneTask
               /\ m_buttonState' =
                    [state |-> "AlreadySubmitted", label |-> "Already Submitted",
                     tooltip |-> <<"Submitted by ", FirstRecord(filename).submittedBy,
                                   " (Ref: ", FirstRecord(filename).firsReference,
                                   ")">>]
               /\ UNCHANGED <<cacheVars, successes>>]_vars

C14_Witness ==
    /\ task[1].pc = "done"
    /\ task[2].pc = "idle"
    /\ m_currentPdf = <<>>
    /\ m_buttonState.state = "AlreadySubmitted"
    /\ m_buttonState.tooltip = <<"Submitted by ", User1, " (Ref: ", Ref1, ")">>
    /\ Len(m_entries) = 1
    /\ \A f \in BaseNames : successes[f] = 0

(* C15: after a transport call that succeeded with reference R, the task   *)
(* (its session valid, its filename not found by its duplicate check)      *)
(* appends the record (filename, R, session username) to the cache and     *)
(* its index, then sets Success with R, and after the 3 seconds sets       *)
(* AlreadySubmitted with R while the cache holds a record with the         *)
(* filename; that is the last thing the task does.                         *)
C15_SuccessPath ==
    [][\A k \in Tasks :
        LET R == task[k].result.firsReference
        IN  /\ (task[k].pc = "relay" /\ StepOf(k) /\ task'[k].result.success)
               => /\ task'[k].pc = "record"
                  /\ task'[k].session.valid
                  /\ task'[k].filename = ExtractFilename(task[k].path)
            /\ (task[k].pc = "record" /\ StepOf(k))
               => /\ task[k].result.success
                  /\ \E tm \in Times :
                        m_entries' = Append(m_entries,
                            [filename        |-> task[k].filename,
                             submitTimestamp |-> tm,
                             firsReference   |-> R,
                             submittedBy     |-> task[k].session.username])
                  /\ m_filenameIndex' = m_filenameIndex \cup {task[k].filename}
                  /\ task'[k] = [task[k] EXCEPT !.pc = "success"]
                  /\ UNCHANGED m_buttonState
            /\ (task[k].pc = "success" /\ StepOf(k))
               => /\ m_buttonState'.state = "Success"
                  /\ m_buttonState'.tooltip = <<"FIRS Reference: ", R>>
                  /\ task'[k] = [task[k] EXCEPT !.pc = "sleep3"]
            /\ (task[k].pc = "sleep3" /\ StepOf(k))
               => /\ m_buttonState'.state = "AlreadySubmitted"
                  /\ m_buttonState'.tooltip = <<"FIRS Reference: ", R>>
                  /\ \E i \in 1..Len(m_entries') :
                        m_entries'[i].filename = task[k].filename
                  /\ task'[k] = DoneTask]_vars

C15_Witness ==
    /\ task[1].pc = "done"
    /\ task[2].pc = "idle"
    /\ m_buttonState.state = "AlreadySubmitted"
    /\ m_buttonState.tooltip = <<"FIRS Reference: ", Ref1>>
    /\ successes[Str(0, <<"a">>)] = 1
    /\ Len(m_entries) = 1
    /\ m_entries[1].filename = Str(0, <<"a">>)
    /\ m_entries[1].firsReference = Ref1
    /\ m_entries[1].submittedBy = User1

(* The error texts of the transport *)
RelayErrors == {o.error : o \in {r \in RelayOutcomes : ~r.success}}

(* C16: when the transport call fails (HTTP 409 and 429 included) the task *)
(* sets Error with the transport's error text as the tooltip and, after    *)
(* the 5 seconds, Ready, and ends; it has called the transport once, and   *)
(* none of its steps from the call on changes the records, the index or    *)
(* the file.                                                               *)
C16_FailurePath ==
    [][\A k \in Tasks :
        /\ (task[k].pc = "relay" /\ StepOf(k) /\ ~task'[k].result.success)
           => /\ task'[k].pc = "failed"
              /\ task'[k].result.error \in RelayErrors
              /\ UNCHANGED <<cacheVars, m_buttonState, successes>>
        /\ (task[k].pc = "failed" /\ StepOf(k))
           => /\ m_buttonState'.state = "Error"
              /\ m_buttonState'.tooltip = <<task[k].result.error>>
              /\ task'[k] = [task[k] EXCEPT !.pc = "sleep5"]
              /\ UNCHANGED <<cacheVars, successes>>
        /\ (task[k].pc = "sleep5" /\ StepOf(k))
           => /\ m_buttonState'.state = "Ready"
              /\ task'[k] = DoneTask
              /\ UNCHANGED <<cacheVars, successes>>
        /\ task'[k].pc \in {"failed", "sleep5"}
           => task'[k].calls = 1 /\ ~task'[k].result.success
        /\ task'[k].calls <= 1]_vars

C16_Witness ==
    /\ task[1].pc = "done"
    /\ task[2].pc = "idle"
    /\ m_buttonState.state = "Ready"
    /\ m_buttonState.tooltip = <<"Click to retry submission">>
    /\ m_entries = <<>>
    /\ m_filenameIndex = {}
    /\ file = NoFile
    /\ \A f \in BaseNames : successes[f] = 0

(* The order of a task's statements *)
TaskOrder ==
    {<<"idle", "session">>, <<"session", "check">>, <<"session", "done">>,
     <<"check", "submitting">>, <<"check", "done">>, <<"submitting", "relay">>,
     <<"relay", "record">>, <<"relay", "failed">>, <<"record", "success">>,
     <<"success", "sleep3">>, <<"sleep3", "done">>, <<"failed", "sleep5">>,
     <<"sleep5", "done">>}

(* C17: a task goes through session load, duplicate check, Submitting,     *)
(* transport call, cache commit and Success in this order: it sets         *)
(* Submitting only after its session was valid and its duplicate check     *)
(* found nothing, calls the transport only after it set Submitting,        *)
(* commits only after a successful call, and when it sets Success the      *)
(* cache holds a record with its filename.                                 *)
C17_StepsInOrder ==
    [][\A k \in Tasks : StepOf(k) =>
        /\ <<task[k].pc, task'[k].pc>> \in TaskOrder
        /\ task'[k].pc = "check" => sessionValid
        /\ task'[k].pc = "submitting"
           => /\ task[k].session.valid
              /\ RecordsOf(ExtractFilename(task[k].path)) = {}
              /\ ExtractFilename(task[k].path) \notin m_filenameIndex
        /\ task'[k].pc = "relay"
           => m_buttonState'.state = "Submitting" /\ task[k].calls = 0
        /\ task[k].pc = "relay" => task'[k].calls = 1
        /\ task[k].pc # "relay" => task'[k].calls \in {task[k].calls, 0}
        /\ task[k].pc = "record"
           => /\ task[k].result.success
              /\ Len(m_entries') = Len(m_entries) + 1
              /\ m_entries'[Len(m_entries')].filename = task[k].filename
        /\ task[k].pc # "record" => UNCHANGED cacheVars
        /\ m_buttonState'.state = "Success" /\ m_buttonState' # m_buttonState
           => /\ task[k].pc = "success"
              /\ RecordsOf(task[k].filename) # {}
              /\ task[k].filename \in m_filenameIndex]_vars

C17_Witness ==
    /\ task[1].pc = "sleep3"
    /\ task[1].calls = 1
    /\ task[1].session.valid
    /\ m_buttonState.state = "Success"
    /\ RecordsOf(task[1].filename) # {}
    /\ task[2].pc = "idle"

(* The decisions of the router that keep a document in this system *)
Routed == {"Invoice", "Unknown"}

(* C18: OnPdfOpened for a routed document sets the phase to                *)
(* AlreadySubmitted when the cache holds a record with the base filename,  *)
(* whether the session is valid or not; otherwise to NoSession when the    *)
(* session is not valid; otherwise to Ready.                               *)
C18_DuplicateFirst ==
    [][\A p \in Paths, d \in Routed :
        OnPdfOpened(p, d)
        => m_buttonState'.state =
              IF RecordsOf(ExtractFilename(p)) # {} THEN "AlreadySubmitted"
              ELSE IF ~sessionValid THEN "NoSession"
              ELSE "Ready"]_vars

C18_Witness ==
    /\ m_currentPdf = <<"b">>
    /\ RecordsOf(Str(0, <<"b">>)) # {}
    /\ ~sessionValid
    /\ m_buttonState.state = "AlreadySubmitted"
    /\ \A k \in Tasks : task[k].pc = "idle"

(* The step is the recomputation of OnPdfOpened for a routed document *)
Recomputation == \E p \in Paths, d \in Routed : OnPdfOpened(p, d)

(* C19: every change of the phase is one of the transitions Checking to    *)
(* Ready, NoSession or RelayUnavailable (SubmitButtonState::               *)
(* FloatNotRunning), Ready to Submitting, Submitting to Success,           *)
(* AlreadySubmitted or Error, Success to AlreadySubmitted, Error to Ready, *)
(* or is the recomputation of a document-opened event and ends in          *)
(* AlreadySubmitted, NoSession or Ready; so Submitting is entered from     *)
(* Ready only.                                                             *)
C19_ListedTransitionsOnly ==
    [][LET Listed == {<<"Checking", "Ready">>, <<"Checking", "NoSession">>,
                      <<"Checking", "FloatNotRunning">>,
                      <<"Ready", "Submitting">>, <<"Submitting", "Success">>,
                      <<"Submitting", "AlreadySubmitted">>,
                      <<"Submitting", "Error">>,
                      <<"Success", "AlreadySubmitted">>, <<"Error", "Ready">>}
       IN  m_buttonState'.state # m_buttonState.state
           => \/ <<m_buttonState.state, m_buttonState'.state>> \in Listed
              \/ /\ Recomputation
                 /\ m_buttonState'.state \in
                        {"AlreadySubmitted", "NoSession", "Ready"}]_vars

(* A task at one of these positions has set Submitting itself: a phase it  *)
(* finds other than its own was set after its click, by a later event      *)
PastSubmitting == {"relay", "record", "success", "sleep3", "failed", "sleep5"}

(* C20: once the phase is AlreadySubmitted, NoSession or RelayUnavailable  *)
(* (FloatNotRunning), no step of a submission started before the phase was *)
(* set (its timers included) changes it.                                   *)
C20_StableUntilEvent ==
    [][\A k \in Tasks :
        ( /\ m_buttonState.state \in
                {"AlreadySubmitted", "NoSession", "FloatNotRunning"}
          /\ m_buttonState'.state # m_buttonState.state
          /\ StepOf(k) )
        => task[k].pc \notin PastSubmitting]_vars

----------------------------------------------------------------------------
(***************************************************************************)
(* SpecBtn: the ButtonState as shared memory.  SetState writes the three   *)
(* fields in three statements and holds no lock, GetButtonState copies     *)
(* the record without a lock; the foreground thread and a submission task  *)
(* run them concurrently, one statement per step.                          *)
(***************************************************************************)
(* The foreground thread and the thread of a submission task *)
Setters == {"ui", "task"}

Button(state, label, tooltip) == [state |-> state, label |-> label, tooltip |-> tooltip]

(* The ButtonState the constructor leaves *)
Constructed == Button("Checking", "Checking...", <<"Verifying session and connection">>)

(* The arguments of the SetState calls of Initialize *)
InitializeStates ==
    {Button("NoSession", "Sign In Required",
            <<"Open Float to sign in to your Helium account">>),
     Button("FloatNotRunning", "Start Float",
            <<"Helium Float must be running to submit invoices">>),
     Button("Ready", "Submit to FIRS", <<"Send this invoice to FIRS for processing">>)}

(* The arguments of the SetState calls of RefreshButtonState *)
RefreshStates ==
    {Button("AlreadySubmitted", "Already Submitted",
            SubmittedByTooltip([submittedBy |-> User1, firsReference |-> Ref1])),
     Button("NoSession", "Sign In Required", <<"Open Float to sign in">>),
     Button("Ready", "Submit to FIRS", <<"Send this invoice to FIRS for processing">>)}

(* The SetState calls one submission task makes, in order: the four ways   *)
(* through the lambda of OnSubmitClicked                                    *)
TaskStates ==
    {<<Button("NoSession", "Sign In Required", <<err>>)>> : err \in SessionErrors}
    \cup
    {<<Button("AlreadySubmitted", "Already Submitted",
              SubmittedByTooltip([submittedBy |-> User1, firsReference |-> Ref1]))>>,
     <<Button("Submitting", "Submitting...",
              <<"Sending to Helium Relay for FIRS processing">>),
       Button("Success", "Submitted!", <<"FIRS Reference: ", Ref1>>),
       Button("AlreadySubmitted", "Already Submitted", <<"FIRS Reference: ", Ref1>>)>>,
     <<Button("Submitting", "Submitting...",
              <<"Sending to Helium Relay for FIRS processing">>),
       Button("Error", "Submit Failed", <<"Daily submission limit exceeded">>),
       Button("Ready", "Submit to FIRS", <<"Click to retry submission">>)>>}


(* A thread that is not inside SetState *)
NotInSetState == [pc |-> "idle", arg |-> <<>>, rest |-> <<>>]

(* A thread enters SetState with the first of the calls it is to make *)
EnterSetState(t, calls) ==
    setter' = [setter EXCEPT ![t] = [pc |-> "state", arg |-> Head(calls),
                                     rest |-> Tail(calls)]]

BtnFrame == UNCHANGED <<cacheVars, callVars, histVars, concVars, syncVars,
                        m_currentPdf, sessionValid, task, successes, returned>>

(* SumatraIntegration::Initialize, line 151: Initialize() reaches its SetState *)
BtnInitialize(arg) ==
    /\ ~initialized
    /\ initialized' = TRUE
    /\ EnterSetState("ui", <<arg>>)
    /\ BtnFrame
    /\ UNCHANGED <<m_buttonState, notified, m_onStateChange, snapshot>>

(* HeliumController::SetButtonStateCallback, called at line 154 of         *)
(* SumatraIntegration.cpp once Initialize has returned                     *)
SetButtonStateCallback ==
    /\ initialized
    /\ setter["ui"].pc = "idle"
    /\ ~m_onStateChange
    /\ m_onStateChange' = TRUE
    /\ BtnFrame
    /\ UNCHANGED <<m_buttonState, notified, initialized, setter, snapshot>>

(* OnPdfOpened on the foreground thread reaches the SetState of            *)
(* RefreshButtonState                                                      *)
BtnOnPdfOpened(arg) ==
    /\ initialized
    /\ setter["ui"].pc = "idle"
    /\ EnterSetState("ui", <<arg>>)
    /\ BtnFrame
    /\ UNCHANGED <<m_buttonState, notified, initialized, m_onStateChange, snapshot>>

(* OnSubmitClicked starts the task; calls are the SetState calls it makes *)
BtnOnSubmitClicked(calls) ==
    /\ initialized
    /\ setter["ui"].pc = "idle"
    /\ setter["task"].pc = "idle"
    /\ EnterSetState("task", calls)
    /\ BtnFrame
    /\ UNCHANGED <<m_buttonState, notified, initialized, m_onStateChange, snapshot>>

(* SetState, lines 133-135: one field per statement *)
SetStateField(t) ==
    /\ setter[t].pc \in {"state", "label", "tooltip"}
    /\ m_buttonState' =
          CASE setter[t].pc = "state" ->
                 [m_buttonState EXCEPT !.state = setter[t].arg.state]
            [] setter[t].pc = "label" ->
                 [m_buttonState EXCEPT !.label = setter[t].arg.label]
            [] setter[t].pc = "tooltip" ->
                 [m_buttonState EXCEPT !.tooltip = setter[t].arg.tooltip]
    /\ setter' = [setter EXCEPT ![t].pc = CASE @ = "state" -> "label"
                                            [] @ = "label" -> "tooltip"
                                            [] @ = "tooltip" -> "callback"]
    /\ BtnFrame
    /\ UNCHANGED <<notified, initialized, m_onStateChange, snapshot>>

(* SetState, lines 137-139: the callback is handed m_buttonState as it is  *)
(* now; then the thread goes on to its next SetState call, if any, and the *)
(* task's thread ends after its last one                                   *)
SetStateCallback(t) ==
    /\ setter[t].pc = "callback"
    /\ notified' = IF m_onStateChange
                   THEN [calls |-> 1 - notified.calls, state |-> m_buttonState]
                   ELSE notified
    /\ IF setter[t].rest # <<>>
       THEN EnterSetState(t, setter[t].rest)
       ELSE setter' = [setter EXCEPT ![t] = IF t = "task"
                                            THEN [NotInSetState EXCEPT !.pc = "done"]
                                            ELSE NotInSetState]
    /\ BtnFrame
    /\ UNCHANGED <<m_buttonState, initialized, m_onStateChange, snapshot>>

(* HeliumController::GetButtonState, called by the window procedure *)
GetButtonState ==
    /\ initialized
    /\ setter["ui"].pc = "idle"
    /\ snapshot' = m_buttonState
    /\ BtnFrame
    /\ UNCHANGED <<m_buttonState, notified, initialized, m_onStateChange, setter>>

InitBtn ==
    /\ m_cachePath = ""
    /\ m_entries = <<>>
    /\ m_filenameIndex = {}
    /\ file = NoFile
    /\ lastOp = "Construct"
    /\ lastArg = <<>>
    /\ retBool = FALSE
    /\ retCheck = NoResult
    /\ added = {}
    /\ preExit = <<>>
    /\ ConcIdle
    /\ SyncIdle
    /\ m_buttonState = Constructed
    /\ m_currentPdf = <<>>
    /\ sessionValid = FALSE
    /\ initialized = FALSE
    /\ task = <<>>
    /\ successes = <<>>
    /\ notified = NotNotified
    /\ m_onStateChange = FALSE
    /\ returned = [op |-> "none"]
    /\ setter = [t \in Setters |-> NotInSetState]
    /\ snapshot = <<>>

NextBtn ==
    \/ \E arg \in InitializeStates : BtnInitialize(arg)
    \/ SetButtonStateCallback
    \/ \E arg \in RefreshStates : BtnOnPdfOpened(arg)
    \/ \E calls \in TaskStates : BtnOnSubmitClicked(calls)
    \/ \E t \in Setters : SetStateField(t) \/ SetStateCallback(t)
    \/ GetButtonState

SpecBtn == InitBtn /\ [][NextBtn]_vars

(* C21: every snapshot returned by GetButtonState or passed to the callback *)
(* has phase, label and detail that come from one single SetState call,    *)
(* never a mix of fields written by two different calls.                   *)
C21_SnapshotsAreWhole ==
    LET Whole == {Constructed} \cup InitializeStates \cup RefreshStates
                 \cup UNION {{calls[i] : i \in DOMAIN calls} : calls \in TaskStates}
    IN  /\ snapshot # <<>> => snapshot \in Whole
        /\ notified.state # <<>> => notified.state \in Whole

----------------------------------------------------------------------------
(***************************************************************************)
(* The classifier (InvoiceRouter.cpp).  Text is a sequence of characters;  *)
(* confidence scores and marker weights are in hundredths.                 *)
(***************************************************************************)
(* The letters, upper case then lower case, for ::toupper and for the      *)
(* icase flag of std::regex                                                *)
Letters == {<<"A", "a">>, <<"B", "b">>, <<"C", "c">>, <<"D", "d">>,
            <<"E", "e">>, <<"F", "f">>, <<"G", "g">>, <<"H", "h">>,
            <<"I", "i">>, <<"J", "j">>, <<"K", "k">>, <<"L", "l">>,
            <<"M", "m">>, <<"N", "n">>, <<"O", "o">>, <<"P", "p">>,
            <<"Q", "q">>, <<"R", "r">>, <<"S", "s">>, <<"T", "t">>,
            <<"U", "u">>, <<"V", "v">>, <<"W", "w">>, <<"X", "x">>,
            <<"Y", "y">>, <<"Z", "z">>}

tolower(c) == IF \E p \in Letters : p[1] = c
              THEN (CHOOSE p \in Letters : p[1] = c)[2] ELSE c

toupper(c) == IF \E p \in Letters : p[2] = c
              THEN (CHOOSE p \in Letters : p[2] = c)[1] ELSE c

(* A regular expression is a tree: "set" one character of a class, "seq"   *)
(* and "alt" over parts, "opt" x?, "any" .*, "rep" x{min,max}.  Ends is    *)
(* the set of positions at which a match that starts at position i of s    *)
(* can end (one past its last character).  Character classes hold lower-   *)
(* case letters and the character read is lower-cased: the icase flag.     *)
RECURSIVE Ends(_, _, _)
Ends(re, s, i) ==
    CASE re.k = "set" -> IF i <= Len(s) /\ tolower(s[i]) \in re.chars
                         THEN {i + 1} ELSE {}
      [] re.k = "any" -> i..(Len(s) + 1)
      [] re.k = "opt" -> {i} \cup Ends(re.of, s, i)
      [] re.k = "alt" -> UNION {Ends(re.parts[n], s, i) : n \in DOMAIN re.parts}
      [] re.k = "seq" ->
           IF re.parts = <<>> THEN {i}
           ELSE UNION {Ends([k |-> "seq", parts |-> Tail(re.parts)], s, j) :
                       j \in Ends(Head(re.parts), s, i)}
      [] re.k = "rep" ->
           UNION {Ends([k |-> "seq", parts |-> [m \in 1..n |-> re.of]], s, i) :
                  n \in re.min..re.max}

(* std::regex_search: the expression matches somewhere in s *)
regex_search(s, re) == \E i \in 1..(Len(s) + 1) : Ends(re, s, i) # {}

(* InitDefaultPatterns: the six patterns in table order *)
m_patterns ==
    LET Word(w) == [k |-> "seq",
                    parts |-> [n \in DOMAIN w |-> [k |-> "set", chars |-> {w[n]}]]]
        Cat(parts) == [k |-> "seq", parts |-> parts]
        Alt(parts) == [k |-> "alt", parts |-> parts]
        DotStar == [k |-> "any"]
        Sep == [k |-> "opt", of |-> [k |-> "set", chars |-> {"_", "-", " "}]]
        Digit == [k |-> "set",
                  chars |-> {"0", "1", "2", "3", "4", "5", "6", "7", "8", "9"}]
        Billing == Alt(<<Word(<<"i", "n", "v", "o", "i", "c", "e">>),
                         Word(<<"b", "i", "l", "l">>),
                         Word(<<"s", "t", "a", "t", "e", "m", "e", "n", "t">>)>>)
    IN  <<[name |-> "GTBank", description |-> "GTBank invoice filenames",
           regex |-> Cat(<<Word(<<"g", "t">>), Sep,
                           Alt(<<Word(<<"b", "a", "n", "k">>), Word(<<"b">>)>>),
                           DotStar, Word(<<"i", "n", "v">>)>>)],
          [name |-> "MTN", description |-> "MTN billing documents",
           regex |-> Cat(<<Word(<<"m", "t", "n">>), DotStar, Billing>>)],
          [name |-> "Airtel", description |-> "Airtel billing documents",
           regex |-> Cat(<<Word(<<"a", "i", "r", "t", "e", "l">>), DotStar, Billing>>)],
          [name |-> "ExecuJet", description |-> "ExecuJet work order / invoice",
           regex |-> Cat(<<Word(<<"w", "n">>),
                           [k |-> "rep", of |-> Digit, min |-> 4, max |-> 6],
                           Word(<<".", "p", "d", "f">>)>>)],
          [name |-> "Generic", description |-> "Generic invoice filenames",
           regex |-> Cat(<<Alt(<<Word(<<"i", "n", "v">>),
                                 Word(<<"i", "n", "v", "o", "i", "c", "e">>),
                                 Word(<<"b", "i", "l", "l">>),
                                 Word(<<"r", "e", "c", "e", "i", "p", "t">>),
                                 Cat(<<Word(<<"t", "a", "x">>), Sep, Word(<<"i", "n", "v">>)>>)>>),
                           Sep, Digit>>)],
          [name |-> "FIRS", description |-> "FIRS / tax-related documents",
           regex |-> Cat(<<Alt(<<Word(<<"f", "i", "r", "s">>),
                                 Word(<<"t", "i", "n">>),
                                 Word(<<"v", "a", "t">>)>>),
                           [k |-> "set", chars |-> {"_", "-", " "}]>>)]>>

(* A match that reports the last pattern of the table that matches *)
MatchFromLast(filename, n) ==
    LET hits == {m \in n..Len(m_patterns) : regex_search(filename, m_patterns[m].regex)}
    IN  IF hits = {}
        THEN [decision |-> "Unknown", matchedPattern |-> <<>>, clientHint |-> "",
              confidenceScore |-> 0, extractions |-> 0]
        ELSE [decision |-> "Invoice",
              matchedPattern |-> <<m_patterns[Max(hits)].description>>,
              clientHint |-> m_patterns[Max(hits)].name, confidenceScore |-> 95,
              extractions |-> 0]

(* InvoiceRouter::MatchFilename, the loop from pattern n on: the first     *)
(* pattern that matches returns; extractions counts the calls of           *)
(* ExtractFirstPageText                                                    *)
RECURSIVE MatchFrom(_, _)
MatchFrom(filename, n) ==
    IF n > Len(m_patterns)
    THEN [decision |-> "Unknown", matchedPattern |-> <<>>, clientHint |-> "",
          confidenceScore |-> 0, extractions |-> 0]
    ELSE IF regex_search(filename, m_patterns[n].regex)
    THEN [decision |-> "Invoice",
          matchedPattern |-> <<m_patterns[n].description>>,
          clientHint |-> m_patterns[n].name, confidenceScore |-> 95,
          extractions |-> 0]
    ELSE MatchFrom(filename, n + 1)

MatchFilename(filename) == MatchFrom(filename, 1)

(* AnalyzeContent, lines 119-135: the markers and their weights *)
markers ==
    <<[text |-> <<"T", "A", "X", " ", "I", "N", "V", "O", "I", "C", "E">>,
       weight |-> 40],
      [text |-> <<"I", "N", "V", "O", "I", "C", "E">>,
       weight |-> 25],
      [text |-> <<"B", "I", "L", "L", " ", "T", "O">>,
       weight |-> 20],
      [text |-> <<"S", "H", "I", "P", " ", "T", "O">>,
       weight |-> 15],
      [text |-> <<"T", "I", "N", ":">>,
       weight |-> 30],
      [text |-> <<"V", "A", "T", ":">>,
       weight |-> 20],
      [text |-> <<"T", "O", "T", "A", "L", " ", "A", "M", "O", "U", "N", "T">>,
       weight |-> 15],
      [text |-> <<"S", "U", "B", "T", "O", "T", "A", "L">>,
       weight |-> 15],
      [text |-> <<"D", "U", "E", " ", "D", "A", "T", "E">>,
       weight |-> 15],
      [text |-> <<"I", "N", "V", "O", "I", "C", "E", " ", "N", "O">>,
       weight |-> 30],
      [text |-> <<"I", "N", "V", "O", "I", "C", "E", " ", "N", "U", "M", "B", "E", "R">>,
       weight |-> 30],
      [text |-> <<"I", "N", "V", " ", "N", "O">>,
       weight |-> 25],
      [text |-> <<"P", "U", "R", "C", "H", "A", "S", "E", " ", "O", "R", "D", "E", "R">>,
       weight |-> 20],
      [text |-> <<"A", "C", "C", "O", "U", "N", "T", " ", "N", "O">>,
       weight |-> 10],
      [text |-> <<"F", "I", "R", "S">>,
       weight |-> 25]>>

(* std::string::find(m) # npos *)
Find(s, m) == \E i \in 1..(Len(s) - Len(m) + 1) : SubSeq(s, i, i + Len(m) - 1) = m

(* A loop that keeps the heaviest marker found as bestMatch *)
RECURSIVE ScanHeaviest(_, _, _, _)
ScanHeaviest(upper, n, score, bestMatch) ==
    IF n > Len(markers) THEN [score |-> score, bestMatch |-> bestMatch]
    ELSE IF Find(upper, markers[n].text)
    THEN ScanHeaviest(upper, n + 1, score + markers[n].weight,
                      IF \A m \in 1..(n - 1) :
                            Find(upper, markers[m].text)
                            => markers[m].weight < markers[n].weight
                      THEN markers[n].text ELSE bestMatch)
    ELSE ScanHeaviest(upper, n + 1, score, bestMatch)

(* The loop of AnalyzeContent over markers n..15, with the running score   *)
(* and bestMatch                                                           *)
RECURSIVE Scan(_, _, _, _)
Scan(upper, n, score, bestMatch) ==
    IF n > Len(markers) THEN [score |-> score, bestMatch |-> bestMatch]
    ELSE IF Find(upper, markers[n].text)
    THEN Scan(upper, n + 1, score + markers[n].weight,
              IF bestMatch = <<>> THEN markers[n].text ELSE bestMatch)
    ELSE Scan(upper, n + 1, score, bestMatch)

(* An analysis that wants a score above the threshold *)
AnalyzeContentAbove(text) ==
    IF text = <<>>
    THEN [decision |-> "Unknown", matchedPattern |-> <<>>, clientHint |-> "",
          confidenceScore |-> 0, extractions |-> 1]
    ELSE LET upper == [i \in DOMAIN text |-> toupper(text[i])]
             found == Scan(upper, 1, 0, <<>>)
             score == Min(found.score, 100)
         IN  IF score > 30
             THEN [decision |-> "Invoice",
                   matchedPattern |-> <<"Content analysis: ", found.bestMatch>>,
                   clientHint |-> "", confidenceScore |-> score, extractions |-> 1]
             ELSE [decision |-> "NotInvoice", matchedPattern |-> <<>>,
                   clientHint |-> "", confidenceScore |-> 100 - score,
                   extractions |-> 1]

(* InvoiceRouter::AnalyzeContent; text is what ExtractFirstPageText        *)
(* returns for the document                                                *)
AnalyzeContent(text) ==
    IF text = <<>>
    THEN [decision |-> "Unknown", matchedPattern |-> <<>>, clientHint |-> "",
          confidenceScore |-> 0, extractions |-> 1]
    ELSE LET upper == [i \in DOMAIN text |-> toupper(text[i])]
             found == Scan(upper, 1, 0, <<>>)
             score == Min(found.score, 100)
         IN  IF score >= 30
             THEN [decision |-> "Invoice",
                   matchedPattern |-> <<"Content analysis: ", found.bestMatch>>,
                   clientHint |-> "", confidenceScore |-> score, extractions |-> 1]
             ELSE [decision |-> "NotInvoice", matchedPattern |-> <<>>,
                   clientHint |-> "", confidenceScore |-> 100 - score,
                   extractions |-> 1]

(* InvoiceRouter::Route *)
Route(pdfPath, text) ==
    LET slashes == {i \in 1..Len(pdfPath) : pdfPath[i] \in {"\\", "/"}}
        filename == IF slashes = {} THEN pdfPath
                    ELSE SubSeq(pdfPath, Max(slashes) + 1, Len(pdfPath))
        filenameResult == MatchFilename(filename)
    IN  IF filenameResult.decision = "Invoice" THEN filenameResult
        ELSE AnalyzeContent(text)

(* The documents opened: their paths ... *)
Documents ==
    {<<"d", "/", "G", "T", "B", "-", "i", "n", "v", "1">>,
     <<"M", "T", "N", " ", "b", "i", "l", "l", "2">>,
     <<"a", "i", "r", "t", "e", "l", "_", "S", "t", "a", "t", "e", "m", "e", "n", "t">>,
     <<"W", "N", "4", "2", "7", "5", "2", ".", "p", "d", "f">>,
     <<"w", "n", "1", "2", "3", ".", "p", "d", "f">>,
     <<"T", "a", "x", "_", "I", "n", "v", "-", "7">>,
     <<"r", "e", "c", "e", "i", "p", "t", "9", " ", "V", "A", "T", "-">>,
     <<"t", "i", "n", " ", "5">>,
     <<"I", "N", "V", "1", "\\", "b">>,
     <<"e", "/", "a">>}

(* ... and the text ExtractFirstPageText finds in them (none when the file  *)
(* cannot be read or holds no run of printable characters)                 *)
Excerpts ==
    {<<>>,
     <<"H", "e", "l", "l", "o", " ", "w", "o", "r", "l", "d">>,
     <<"I", "n", "v", "o", "i", "c", "e", " ", "B", "i", "l", "l", " ", "T", "o">>,
     <<"T", "i", "n", ":", " ", "1", "2", " ", "I", "n", "v", "o", "i", "c", "e">>,
     <<"T", "a", "x", " ", "I", "n", "v", "o", "i", "c", "e">>,
     <<"I", "n", "v", "o", "i", "c", "e">>,
     <<"S", "h", "i", "p", " ", "T", "o", " ", "S", "u", "b", "t", "o", "t", "a",
       "l">>,
     <<"A", "c", "c", "o", "u", "n", "t", " ", "N", "o", " ", "S", "h", "i", "p",
       " ", "T", "o">>,
     <<"T", "a", "x", " ", "I", "n", "v", "o", "i", "c", "e", " ", "N", "o", " ",
       "T", "i", "n", ":", " ", "V", "a", "t", ":", " ", "F", "i", "r", "s">>,
     <<"V", "a", "t", ":", " ", "A", "c", "c", "o", "u", "n", "t", " ", "N", "o">>,
     <<"F", "i", "r", "s", " ", "D", "u", "e", " ", "D", "a", "t", "e">>,
     <<"t", "o", "t", "a", "l", " ", "a", "m", "o", "u", "n", "t">>}

----------------------------------------------------------------------------
(***************************************************************************)
(* SpecUi: the program as SumatraIntegration.cpp wires it, on the          *)
(* foreground thread: the controller is created and initialised, the       *)
(* callback is registered, and every document loaded is routed.  (The call *)
(* of OnSubmitClicked in the window procedure is commented out, line 122,  *)
(* so no submission task runs here.)                                       *)
(***************************************************************************)
(* HeliumIntegration::Initialize, lines 149-159 *)
StartUp(relayUp) ==
    /\ ~initialized
    /\ InitializeCall(relayUp)
    /\ m_onStateChange' = TRUE
    /\ returned' = [op |-> "Initialize",
                    value |-> InitializeResult(relayUp).value,
                    probes |-> InitializeResult(relayUp).probes]
    /\ UNCHANGED <<file, callVars, histVars, concVars, syncVars, m_currentPdf,
                   sessionValid, task, successes, setter, snapshot>>

(* Route on every document and excerpt of the model *)
RouteOf == [p \in Documents, text \in Excerpts |-> Route(p, text)]

(* HeliumIntegration::OnDocumentLoaded, lines 193-201; text is what        *)
(* ExtractFirstPageText finds in the document                              *)
OnDocumentLoaded(filePath, text) ==
    /\ initialized
    /\ LET route == RouteOf[filePath, text]
       IN  /\ OnPdfOpenedCall(filePath, route.decision)
           /\ returned' = [op |-> "OnPdfOpened", text |-> text, value |-> route]
    /\ UNCHANGED <<cacheVars, callVars, histVars, concVars, syncVars,
                   sessionValid, initialized, task, successes, m_onStateChange,
                   setter, snapshot>>

NextUi ==
    \/ \E relayUp \in BOOLEAN : StartUp(relayUp)
    \/ \E p \in Documents, text \in Excerpts : OnDocumentLoaded(p, text)
    \/ SessionChange

SpecUi == InitCtl /\ [][NextUi]_vars

(* C22: every ButtonState change, including those made by Initialize,      *)
(* triggers exactly one notification of the UI collaborator, and the       *)
(* snapshot delivered is the state that change produced.                   *)
C22_EveryChangeNotified ==
    [][m_buttonState' # m_buttonState
       => /\ notified'.calls # notified.calls
          /\ notified'.state = m_buttonState']_vars

(* Properties of the classifier and of the foreground path, checked under  *)
(* SpecUi on the value the last call returned                              *)

(* C24: for a path whose base filename matches at least one table pattern, *)
(* Route returns Invoice with confidence 0.95 and the name and description *)
(* of the first matching pattern in table order, and never invokes content *)
(* extraction; tier 2 runs only when no pattern matches.                   *)
C24_FilenameTier ==
    returned.op = "OnPdfOpened" =>
        LET base == ExtractFilename(m_currentPdf).tail
            hits == {n \in DOMAIN m_patterns : regex_search(base, m_patterns[n].regex)}
            first == CHOOSE n \in hits : \A m \in hits : n <= m
        IN  /\ hits # {} =>
                returned.value = [decision |-> "Invoice",
                                  matchedPattern |-> <<m_patterns[first].description>>,
                                  clientHint |-> m_patterns[first].name,
                                  confidenceScore |-> 95, extractions |-> 0]
            /\ returned.value.extractions > 0 => hits = {}

(* A name that two patterns match was routed by the earlier one *)
C24_Witness ==
    /\ returned.op = "OnPdfOpened"
    /\ returned.value.clientHint = "GTBank"
    /\ regex_search(ExtractFilename(m_currentPdf).tail, m_patterns[5].regex)

(* C25: when no excerpt is obtainable the decision is Unknown with         *)
(* confidence 0; otherwise the score is the sum of the weights of the      *)
(* markers present in the upper-cased excerpt, clamped to 1.0, and the     *)
(* decision is Invoice with confidence = score when score >= 0.30, else    *)
(* NotInvoice with confidence = 1 - score.  An excerpt containing exactly  *)
(* INVOICE and BILL TO yields Invoice with 0.45; one containing no marker  *)
(* yields NotInvoice with 1.0.                                             *)
C25_ContentScore ==
    (returned.op = "OnPdfOpened" /\ returned.value.extractions > 0) =>
        LET upper == [i \in DOMAIN returned.text |-> toupper(returned.text[i])]
            present == {n \in DOMAIN markers : Find(upper, markers[n].text)}
            RECURSIVE Sum(_)
            Sum(S) == IF S = {} THEN 0
                      ELSE LET n == CHOOSE n \in S : TRUE
                           IN  markers[n].weight + Sum(S \ {n})
            score == IF Sum(present) > 100 THEN 100 ELSE Sum(present)
            value == returned.value
        IN  /\ returned.text = <<>> =>
                value.decision = "Unknown" /\ value.confidenceScore = 0
            /\ (returned.text # <<>> /\ score >= 30) =>
                value.decision = "Invoice" /\ value.confidenceScore = score
            /\ (returned.text # <<>> /\ score < 30) =>
                value.decision = "NotInvoice" /\ value.confidenceScore = 100 - score
            /\ (returned.text # <<>> /\ present = {2, 3}) =>
                value.decision = "Invoice" /\ value.confidenceScore = 45
            /\ (returned.text # <<>> /\ present = {}) =>
                value.decision = "NotInvoice" /\ value.confidenceScore = 100

(* An excerpt with exactly INVOICE and BILL TO was scored *)
C25_Witness ==
    /\ returned.op = "OnPdfOpened"
    /\ returned.value.extractions > 0
    /\ {n \in DOMAIN markers :
          Find([i \in DOMAIN returned.text |-> toupper(returned.text[i])],
               markers[n].text)} = {2, 3}
    /\ returned.value.confidenceScore = 45

(* C26: when tier 2 decides Invoice, the diagnostic names the first marker *)
(* found in table order (not the heaviest marker found): for any set of    *)
(* present markers, matched_pattern identifies the present marker with the *)
(* lowest table position.                                                  *)
C26_FirstMarkerNamed ==
    (/\ returned.op = "OnPdfOpened"
     /\ returned.value.extractions > 0
     /\ returned.value.decision = "Invoice") =>
        LET upper == [i \in DOMAIN returned.text |-> toupper(returned.text[i])]
            present == {n \in DOMAIN markers : Find(upper, markers[n].text)}
            first == CHOOSE n \in present : \A m \in present : n <= m
        IN  returned.value.matchedPattern = <<"Content analysis: ", markers[first].text>>

(* Tier 2 decided Invoice on an excerpt whose first marker is lighter than *)
(* another marker it holds                                                 *)
C26_Witness ==
    /\ returned.op = "OnPdfOpened"
    /\ returned.value.extractions > 0
    /\ returned.value.decision = "Invoice"
    /\ \E n, m \in DOMAIN markers :
          /\ returned.value.matchedPattern = <<"Content analysis: ", markers[n].text>>
          /\ Find([i \in DOMAIN returned.text |-> toupper(returned.text[i])],
                  markers[m].text)
          /\ markers[m].weight > markers[n].weight

(* C27: OnPdfOpened recomputes the ButtonState only when the routing       *)
(* decision is Invoice or Unknown; when the decision is NotInvoice the     *)
(* ButtonState is left unchanged and no notification is sent, and in all   *)
(* cases the cache is not modified and the RouteResult is returned to the  *)
(* caller.                                                                 *)
C27_RefreshOnlyWhenRouted ==
    [][\A p \in Documents, text \in Excerpts :
          OnDocumentLoaded(p, text) =>
              /\ UNCHANGED cacheVars
              /\ returned'.value = RouteOf[p, text]
              /\ IF RouteOf[p, text].decision = "NotInvoice"
                 THEN UNCHANGED <<m_buttonState, notified>>
                 ELSE /\ notified'.calls # notified.calls
                      /\ notified'.state = m_buttonState'
                      /\ m_buttonState'.state \in {"AlreadySubmitted", "NoSession",
                                                  "Ready"}]_vars

(* A document the cache holds was opened and routed NotInvoice, and the    *)
(* button does not say AlreadySubmitted                                    *)
C27_Witness ==
    /\ returned.op = "OnPdfOpened"
    /\ returned.value.decision = "NotInvoice"
    /\ ExtractFilename(m_currentPdf) \in m_filenameIndex
    /\ m_buttonState.state # "AlreadySubmitted"

(* C28: the orchestrator starts in Checking, and Initialize always returns *)
(* true and leaves the phase at NoSession when no valid session exists     *)
(* (without probing the relay), at RelayUnavailable (FloatNotRunning in    *)
(* the source) when the session is valid but the relay probe fails, and at *)
(* Ready otherwise; it never leaves the phase at Checking.                 *)
C28_InitializePhases ==
    [][\A relayUp \in BOOLEAN :
          StartUp(relayUp) =>
              /\ m_buttonState.state = "Checking"
              /\ returned'.value = TRUE
              /\ IF ~sessionValid
                 THEN m_buttonState'.state = "NoSession" /\ returned'.probes = 0
                 ELSE IF ~relayUp
                 THEN m_buttonState'.state = "FloatNotRunning" /\ returned'.probes = 1
                 ELSE m_buttonState'.state = "Ready" /\ returned'.probes = 1]_vars

(* Initialize has returned without a session *)
C28_Witness ==
    /\ returned.op = "Initialize"
    /\ returned.value = TRUE
    /\ returned.probes = 0
    /\ m_buttonState.state = "NoSession"

----------------------------------------------------------------------------
(* C23: when the cache write fails after a successful remote submission,   *)
(* the outcome is surfaced distinctly: the resulting ButtonState sequence  *)
(* differs from that of an ordinary successful submission whose record was *)
(* persisted.  Checked under SpecCtl as: a task publishes the ordinary     *)
(* Success state only when the file holds a record of its filename.        *)
C23_WriteFailureSurfaced ==
    [][\A k \in Tasks :
          (/\ task[k].pc = "success"
           /\ StepOf(k)
           /\ \A i \in 1..Len(OnDisk) : OnDisk[i].filename # task[k].filename)
          => m_buttonState'.state # "Success"]_vars

(* Properties of AddEntry and Check, checked under Spec *)

(* C29: when Save fails (no cache path set because Load was never called,  *)
(* or the file cannot be opened), AddEntry still appends the record and    *)
(* inserts the filename into the index and reports nothing to the caller,  *)
(* so Check returns AlreadySubmitted in this process while the call has    *)
(* written nothing to the on-disk file.                                    *)
C29_AddEntrySwallowsFailure ==
    [][\A in \in Inputs, t \in Times, w \in Writable :
          (AddEntry(in[1], in[2], in[3], t, w) /\ ~SaveOk(m_cachePath, w))
          => /\ m_entries' = Append(m_entries, MakeEntry(in[1], in[2], in[3], t))
             /\ m_filenameIndex' = m_filenameIndex \cup {in[1]}
             /\ <<retBool', retCheck'>> = <<FALSE, NoResult>>
             /\ CheckResult(m_entries', m_filenameIndex', in[1]).status
                    = "AlreadySubmitted"
             /\ file' = file]_vars

(* AddEntry was called before any Load: the cache answers AlreadySubmitted *)
(* and no file has been written                                            *)
C29_Witness ==
    /\ lastOp = "AddEntry"
    /\ m_cachePath = ""
    /\ CheckResult(m_entries, m_filenameIndex, lastArg[1]).status = "AlreadySubmitted"
    /\ ~file.exists

(* C30: repeated AddEntry for the same filename appends a further record   *)
(* each time and never overwrites; Check for that filename always returns  *)
(* the reference, user and timestamp of the first record added for it,     *)
(* both before and after a Save/Load cycle.  (The records added for a      *)
(* filename passed to AddEntry are those that hold the 255 bytes of it a   *)
(* record stores.)                                                         *)
C30_FirstRecordReturned ==
    [][/\ lastOp' = "AddEntry" =>
            /\ Len(m_entries') = Len(m_entries) + 1
            /\ SubSeq(m_entries', 1, Len(m_entries)) = m_entries
       /\ lastOp' = "Check" =>
            LET stored == strncpy_s(lastArg'[1], FilenameSize - 1)
                of == {i \in 1..Len(m_entries) : m_entries[i].filename = stored}
                first == m_entries[CHOOSE i \in of : \A j \in of : i <= j]
            IN  (lastArg'[1] \in added /\ of # {}) =>
                    retCheck' = [status |-> "AlreadySubmitted",
                                 firsReference |-> first.firsReference,
                                 submittedBy |-> first.submittedBy,
                                 submitTimestamp |-> first.submitTimestamp]]_vars

(***************************************************************************)
(* SpecId: the controller of SpecCtl on documents whose paths differ in    *)
(* the directory only or in the letter case of the base filename only.     *)
(***************************************************************************)

IdPaths == {<<"d", "/", "a">>, <<"e", "\\", "a">>, <<"d", "/", "A">>}

IdBaseNames == {ExtractFilename(p) : p \in IdPaths}

InitId ==
    /\ m_cachePath = ""
    /\ m_entries = <<>>
    /\ m_filenameIndex = {}
    /\ file \in {NoFile, PriorFile}
    /\ lastOp = "Construct"
    /\ lastArg = <<>>
    /\ retBool = FALSE
    /\ retCheck = NoResult
    /\ added = {}
    /\ preExit = <<>>
    /\ ConcIdle
    /\ SyncIdle
    /\ UiIdle
    /\ m_buttonState = [state |-> "Checking", label |-> "Checking...",
                        tooltip |-> <<"Verifying session and connection">>]
    /\ m_currentPdf = <<>>
    /\ sessionValid \in BOOLEAN
    /\ initialized = FALSE
    /\ task = [k \in Tasks |-> IdleTask]
    /\ successes = [f \in IdBaseNames |-> 0]
    /\ notified = NotNotified

NextId ==
    \/ \E relayUp \in BOOLEAN : Initialize(relayUp)
    \/ \E p \in IdPaths, d \in RouteDecisions : OnPdfOpened(p, d)
    \/ SessionChange
    \/ \E k \in Tasks :
        \/ \E p \in IdPaths : OnSubmitClicked(k, p)
        \/ \E err \in SessionErrors : TaskSession(k, err)
        \/ TaskCheck(k)
        \/ TaskSubmitting(k)
        \/ \E outcome \in RelayOutcomes : TaskRelay(k, outcome)
        \/ \E tm \in Times, w \in Writable : TaskAddEntry(k, tm, w)
        \/ TaskSuccess(k)
        \/ TaskRevertSubmitted(k)
        \/ TaskError(k)
        \/ TaskRevertReady(k)

SpecId == InitId /\ [][NextId]_vars

(* The text after the last slash or backslash of a path, as a sequence of  *)
(* characters                                                              *)
AfterLastSeparator(path) ==
    LET n == CHOOSE i \in 0..Len(path) :
                 /\ i > 0 => path[i] \in {"/", "\\"}
                 /\ \A j \in (i + 1)..Len(path) : path[j] \notin {"/", "\\"}
    IN  SubSeq(path, n + 1, Len(path))

SameBaseName(P, Q) == AfterLastSeparator(P) = AfterLastSeparator(Q)

(* The base filenames differ, and only in the case of letters *)
CaseVariant(P, Q) ==
    LET f == AfterLastSeparator(P)
        g == AfterLastSeparator(Q)
    IN  /\ f # g
        /\ Len(f) = Len(g)
        /\ \A i \in 1..Len(f) : tolower(f[i]) = tolower(g[i])

(* The submission of path P has succeeded: the transport call for it has   *)
(* succeeded and AddEntry for it has returned                              *)
Submitted(P) ==
    successes[ExtractFilename(P)] >
        Cardinality({k \in Tasks : /\ task[k].pc = "record"
                                   /\ task[k].filename = ExtractFilename(P)})

(* No submission of path P has reached the transport in this process, and  *)
(* the file an earlier run left does not name it                           *)
NeverSubmitted(P) ==
    /\ successes[ExtractFilename(P)] = 0
    /\ \A i \in 1..Len(PriorFile.data) :
           PriorFile.data[i].filename.tail # AfterLastSeparator(P)

(* C31: document identity is the base filename only, compared              *)
(* case-sensitively.  After a successful submission of path P, for every   *)
(* path Q with the same base filename (a different directory included):    *)
(* OnPdfOpened of Q, when it refreshes, sets AlreadySubmitted, and the     *)
(* duplicate check of a task started by OnSubmitClicked for Q sets         *)
(* AlreadySubmitted and ends the task.  For a path Q whose base filename   *)
(* differs from P's in letter case only and was itself never submitted,    *)
(* OnPdfOpened does not set AlreadySubmitted and the task's duplicate      *)
(* check goes on to submit.                                                *)
C31_BaseFilenameIdentity ==
    [][\A Q \in IdPaths :
        LET same == \E P \in IdPaths : Submitted(P) /\ SameBaseName(P, Q)
            variant == \E P \in IdPaths :
                           Submitted(P) /\ CaseVariant(P, Q) /\ NeverSubmitted(Q)
        IN  /\ \A d \in Routed :
                   (m_currentPdf' = Q /\ OnPdfOpened(Q, d)) =>
                       /\ same => m_buttonState'.state = "AlreadySubmitted"
                       /\ variant => m_buttonState'.state \in {"Ready", "NoSession"}
            /\ \A k \in Tasks :
                   (task[k].path = Q /\ task[k].pc = "check" /\ TaskCheck(k)) =>
                       /\ same => /\ m_buttonState'.state = "AlreadySubmitted"
                                  /\ task'[k].pc = "done"
                       /\ variant => /\ task'[k].pc = "submitting"
                                     /\ UNCHANGED m_buttonState]_vars

(* d/a has been submitted and recorded by a task that is still in its 3 s  *)
(* sleep; e\a, opened after it, shows AlreadySubmitted, and a task for     *)
(* d/A has passed its duplicate check                                      *)
C31_Witness ==
    /\ \E k \in Tasks : task[k].pc = "sleep3" /\ task[k].path = <<"d", "/", "a">>
    /\ m_currentPdf = <<"e", "\\", "a">>
    /\ m_buttonState.state = "AlreadySubmitted"
    /\ m_buttonState.tooltip[1] = "Submitted by "
    /\ \E k \in Tasks : task[k].pc = "submitting" /\ task[k].path = <<"d", "/", "A">>

(***************************************************************************)
(* SpecRelay: RelayClient::SubmitInvoice as a function of whether the PDF  *)
(* file can be read and of what the transport does.  Strings are           *)
(* sequences of characters and of fixed pieces of text.                    *)
(***************************************************************************)

npos == -1

(* std::string::find(m, from): the first position (from 0) at or after     *)
(* from where m occurs, or npos                                            *)
find(s, m, from) ==
    LET hits == {i \in from..(Len(s) - Len(m)) : SubSeq(s, i + 1, i + Len(m)) = m}
    IN  IF hits = {} THEN npos
        ELSE CHOOSE i \in hits : \A j \in hits : i <= j

(* std::string::substr(pos, count) *)
substr(s, pos, count) == SubSeq(s, pos + 1, pos + count)

Digits == <<"0", "1", "2", "3", "4", "5", "6", "7", "8", "9">>

(* std::to_string of a status code (never negative) *)
RECURSIVE to_string(_)
to_string(n) ==
    IF n < 10 THEN <<Digits[n + 1]>>
    ELSE Append(to_string(n \div 10), Digits[(n % 10) + 1])

(* The points where SendRequest gives up, and "ok" when it reads a response *)
TransportErrors ==
    [session |-> "WinHTTP session not initialized",
     connect |-> "Failed to connect to Relay",
     request |-> "Failed to create HTTP request",
     send    |-> "Failed to send request (is Relay running?)",
     receive |-> "No response from Relay"]

StatusCodes == {0, 100, 199, 200, 201, 202, 204, 299, 400, 409, 410, 428, 429, 430, 500, 503}

Quote == "\""

Field(key, value) == <<Quote>> \o key \o <<Quote, ":", Quote>> \o value \o <<Quote>>

FileUuid == <<"f", "i", "l", "e", "_", "u", "u", "i", "d">>

FirsReference == <<"f", "i", "r", "s", "_", "r", "e", "f", "e", "r", "e", "n", "c", "e">>

Bodies ==
    {<<>>,
     <<"{", "}">>,
     <<"{">> \o Field(FileUuid, <<"u", "1">>) \o <<",">>
             \o Field(FirsReference, <<"r", "7">>) \o <<"}">>,
     <<"{">> \o Field(FirsReference, <<"r">>) \o <<"}">>,
     <<"{">> \o Field(FileUuid, <<>>) \o <<"}">>,
     <<"{", Quote>> \o FirsReference \o <<Quote, ":", "7", "}">>}

Transports ==
    [stage : DOMAIN TransportErrors, statusCode : {0}, body : {<<>>}]
        \cup [stage : {"ok"}, statusCode : StatusCodes, body : Bodies]

(* RelayClient::SendRequest, lines 96-178: the RelayResponse for each way  *)
(* the transport can go                                                    *)
SendRequest(transport) ==
    IF transport.stage = "ok"
    THEN [statusCode |-> transport.statusCode, body |-> transport.body,
          error |-> <<>>, success |-> TRUE]
    ELSE [statusCode |-> 0, body |-> <<>>,
          error |-> <<TransportErrors[transport.stage]>>, success |-> FALSE]

(* lines 61-70: the text between the quotes that follow the key *)
extractField(body, key) ==
    LET search == <<Quote>> \o key \o <<Quote>>
        pos == find(body, search, 0)
        open == find(body, <<Quote>>, pos + Len(search) + 1)
        end == find(body, <<Quote>>, open + 1)
    IN  IF pos = npos THEN <<>>
        ELSE IF open = npos THEN <<>>
        ELSE IF end = npos THEN <<>>
        ELSE substr(body, open + 1, end - open - 1)

(* The default-constructed SubmitResult, RelayClient.h lines 23-29 *)
EmptySubmitResult ==
    [success |-> FALSE, firsReference |-> <<>>, fileUuid |-> <<>>,
     error |-> <<>>, httpStatus |-> 0]

(* A client that takes every 2xx status as success *)
SubmitInvoiceAccepting(readable, transport) ==
    LET resp == SendRequest(transport)
    IN  IF ~readable
        THEN [requests |-> 0,
              result |-> [EmptySubmitResult EXCEPT !.error = <<"Failed to read PDF file">>]]
        ELSE [requests |-> 1,
              result |->
                IF ~resp.success
                THEN [EmptySubmitResult EXCEPT !.httpStatus = resp.statusCode,
                                               !.error = resp.error]
                ELSE IF resp.statusCode \in 200..299
                THEN [EmptySubmitResult EXCEPT
                          !.httpStatus = resp.statusCode,
                          !.success = TRUE,
                          !.fileUuid = extractField(resp.body, FileUuid),
                          !.firsReference = extractField(resp.body, FirsReference)]
                ELSE [EmptySubmitResult EXCEPT
                          !.httpStatus = resp.statusCode,
                          !.error = <<"Relay returned HTTP ">> \o to_string(resp.statusCode)]]

(* RelayClient::SubmitInvoice, lines 33-82.  readable: BuildMultipartBody  *)
(* could open the PDF file (its result is empty only when it could not);   *)
(* requests counts the calls of SendRequest                                *)
SubmitInvoice(readable, transport) ==
    LET resp == SendRequest(transport)
    IN  IF ~readable
        THEN [requests |-> 0,
              result |-> [EmptySubmitResult EXCEPT !.error = <<"Failed to read PDF file">>]]
        ELSE [requests |-> 1,
              result |->
                IF ~resp.success
                THEN [EmptySubmitResult EXCEPT !.httpStatus = resp.statusCode,
                                               !.error = resp.error]
                ELSE IF resp.statusCode = 200 \/ resp.statusCode = 201
                THEN [EmptySubmitResult EXCEPT
                          !.httpStatus = resp.statusCode,
                          !.success = TRUE,
                          !.fileUuid = extractField(resp.body, FileUuid),
                          !.firsReference = extractField(resp.body, FirsReference)]
                ELSE IF resp.statusCode = 409
                THEN [EmptySubmitResult EXCEPT
                          !.httpStatus = resp.statusCode,
                          !.error = <<"Invoice already submitted (duplicate)">>]
                ELSE IF resp.statusCode = 429
                THEN [EmptySubmitResult EXCEPT
                          !.httpStatus = resp.statusCode,
                          !.error = <<"Daily submission limit exceeded">>]
                ELSE [EmptySubmitResult EXCEPT
                          !.httpStatus = resp.statusCode,
                          !.error = <<"Relay returned HTTP ">> \o to_string(resp.statusCode)]]

(* A call of SubmitInvoice; the arguments and what it returned are kept *)
SubmitInvoiceCall(readable, transport) ==
    /\ returned' = [op |-> "SubmitInvoice", readable |-> readable,
                    transport |-> transport,
                    value |-> SubmitInvoice(readable, transport)]
    /\ UNCHANGED <<cacheVars, callVars, histVars, concVars, ctlVars, syncVars,
                   m_onStateChange, setter, snapshot>>

NextRelay ==
    \E readable \in BOOLEAN, transport \in Transports :
        SubmitInvoiceCall(readable, transport)

SpecRelay == InitCtl /\ [][NextRelay]_vars

(* The number a sequence of decimal digits stands for *)
RECURSIVE Decimal(_)
Decimal(digits) ==
    IF digits = <<>> THEN 0
    ELSE 10 * Decimal(SubSeq(digits, 1, Len(digits) - 1))
         + (CHOOSE v \in 0..9 : Digits[v + 1] = digits[Len(digits)])

(* C32: SubmitInvoice reports success if and only if the request completed *)
(* at transport level and the HTTP status is 200 or 201; status 409 yields *)
(* the duplicate error, 429 the rate-limit error, any other status a       *)
(* generic error that carries the status code in decimal, a transport-     *)
(* level failure yields that failure's error, and an unreadable PDF file   *)
(* yields a failure without any request being sent.                        *)
C32_SubmitStatuses ==
    returned.op = "SubmitInvoice" =>
        LET result == returned.value.result
            sent == returned.value.requests
            completed == returned.readable /\ returned.transport.stage = "ok"
            status == returned.transport.statusCode
        IN  /\ result.success <=> (completed /\ status \in {200, 201})
            /\ result.success => result.error = <<>>
            /\ ~returned.readable =>
                   /\ sent = 0
                   /\ result.error = <<"Failed to read PDF file">>
            /\ returned.readable => sent = 1
            /\ (returned.readable /\ ~completed) =>
                   result.error = <<TransportErrors[returned.transport.stage]>>
            /\ completed => result.httpStatus = status
            /\ (completed /\ status = 409) =>
                   result.error = <<"Invoice already submitted (duplicate)">>
            /\ (completed /\ status = 429) =>
                   result.error = <<"Daily submission limit exceeded">>
            /\ (completed /\ status \notin {200, 201, 409, 429}) =>
                   /\ result.error[1] = "Relay returned HTTP "
                   /\ Decimal(Tail(result.error)) = status

(* The transport completed with status 204 and SubmitInvoice reported the  *)
(* generic error with that code                                            *)
C32_Witness ==
    /\ returned.op = "SubmitInvoice"
    /\ returned.readable
    /\ returned.transport.stage = "ok"
    /\ returned.transport.statusCode = 204
    /\ ~returned.value.result.success
    /\ returned.value.result.error = <<"Relay returned HTTP ", "2", "0", "4">>

(***************************************************************************)
(* SpecDown: the controller of SpecCtl together with the integration's     *)
(* Shutdown, which deletes it.  The tasks are detached threads that hold   *)
(* the controller's address; after the deletion a statement of a task      *)
(* that uses the controller reads and writes freed memory, which is        *)
(* undefined: here it either finds the memory as it was left, or faults    *)
(* and ends the process, or (the cache lookup) reads anything.             *)
(***************************************************************************)

(* g_controller is not null *)
ControllerAlive == caller = "idle"

(* HeliumIntegration::Shutdown, lines 204-209: delete g_controller runs    *)
(* ~HeliumController (StopBackgroundSync) and then the members'            *)
(* destructors (~DuplicateCache: StopBackgroundSync again); the controller *)
(* never starts the background thread, so neither call has one to join.    *)
(* No task is waited for.                                                  *)
Shutdown ==
    /\ ControllerAlive
    /\ initialized
    /\ ~m_syncThread.joinable
    /\ m_running' = FALSE
    /\ caller' = "destroyed"
    /\ stops' = stops + 2
    /\ UNCHANGED <<cacheVars, callVars, histVars, concVars, ctlVars, uiVars,
                   m_syncThread>>

(* The foreground path, which tests g_controller first                    *)
(* (SumatraIntegration.cpp lines 115 and 194)                             *)
DownOnPdfOpened(pdfPath, decision) ==
    /\ ControllerAlive
    /\ OnPdfOpened(pdfPath, decision)

DownOnSubmitClicked(k, currentPdfPath) ==
    /\ ControllerAlive
    /\ OnSubmitClicked(k, currentPdfPath)

(* The next statement of task k uses a member of the controller: SetState, *)
(* m_cache.Check, m_relay.SubmitInvoice, m_cache.AddEntry.                 *)
(* SessionToken::Load is static and uses none.                             *)
Touches(k) ==
    \/ task[k].pc \in {"check", "submitting", "relay", "record", "success",
                       "sleep3", "failed", "sleep5"}
    \/ task[k].pc = "session" /\ ~sessionValid

(* The statements of task k, run by its own thread whether or not the      *)
(* controller still exists                                                 *)
TaskStep(k) ==
    \/ \E err \in SessionErrors : TaskSession(k, err)
    \/ TaskCheck(k)
    \/ TaskSubmitting(k)
    \/ \E outcome \in RelayOutcomes : TaskRelay(k, outcome)
    \/ \E tm \in Times, w \in Writable : TaskAddEntry(k, tm, w)
    \/ TaskSuccess(k)
    \/ TaskRevertSubmitted(k)
    \/ TaskError(k)
    \/ TaskRevertReady(k)

(* A use of the deleted controller that faults: the process ends *)
TaskFault(k) ==
    /\ ~ControllerAlive
    /\ Touches(k)
    /\ task' = [j \in Tasks |-> [task[j] EXCEPT !.pc = "fault"]]
    /\ CtlFrame
    /\ UNCHANGED <<cacheVars, m_buttonState, notified, successes>>

(* m_cache.Check on the deleted cache: whatever the freed index and        *)
(* records hold now                                                        *)
TaskCheckDangling(k, status) ==
    /\ ~ControllerAlive
    /\ task[k].pc = "check"
    /\ IF status = "AlreadySubmitted"
       THEN /\ SetState("AlreadySubmitted", "Already Submitted",
                        SubmittedByTooltip([NoResult EXCEPT !.status = status]))
            /\ TaskGoto(k, "done")
       ELSE /\ task' = [task EXCEPT ![k].pc = "submitting",
                                    ![k].filename = ExtractFilename(task[k].path)]
            /\ UNCHANGED <<m_buttonState, notified>>
    /\ CtlFrame
    /\ UNCHANGED <<cacheVars, successes>>

NextDown ==
    \/ \E relayUp \in BOOLEAN : Initialize(relayUp)
    \/ \E p \in Paths, d \in RouteDecisions : DownOnPdfOpened(p, d)
    \/ SessionChange
    \/ Shutdown
    \/ \E k \in Tasks :
        \/ \E p \in Paths : DownOnSubmitClicked(k, p)
        \/ TaskStep(k)
        \/ TaskFault(k)
        \/ \E status \in {"AlreadySubmitted", "NotSubmitted"} :
               TaskCheckDangling(k, status)

SpecDown == InitCtl /\ [][NextDown]_vars

(* C33: no submission task touches the orchestrator after it has been      *)
(* destroyed: whenever a task runs a statement that uses the orchestrator  *)
(* or its cache (Check, AddEntry, the transport call, SetState, the        *)
(* SetState after the 3 s or 5 s sleep), the orchestrator has not been     *)
(* deleted by Shutdown.                                                    *)
C33_TasksTouchLiveController ==
    [][\A k \in Tasks :
        (Touches(k) /\ task'[k] # task[k]) => ControllerAlive]_vars

(***************************************************************************)
(* SpecLive: SpecCtl with the tasks' threads scheduled: every statement of *)
(* a task is eventually executed.  Sleep(3000) and Sleep(5000) return, and *)
(* the transport call returns (SendRequest sets WinHTTP timeouts,          *)
(* RelayClient.cpp line 121).                                              *)
(***************************************************************************)

SpecLive ==
    /\ InitCtl
    /\ [][NextCtl]_vars
    /\ \A k \in Tasks : WF_vars(TaskStep(k))

(* Task k has been started and has not returned *)
InFlight(k) == task[k].pc \notin {"idle", "done"}

(* C34: every submission task terminates (the transport call returning),   *)
(* and the statement it ends with is a SetState of NoSession,              *)
(* AlreadySubmitted or Ready; whenever no submission task is in flight the *)
(* phase is not Submitting, Success or Error.                              *)
C34_TasksTerminate ==
    /\ \A k \in Tasks : InFlight(k) ~> (task[k].pc = "done")
    /\ [][\A k \in Tasks :
            (InFlight(k) /\ ~InFlight(k)') =>
                m_buttonState'.state \in {"NoSession", "AlreadySubmitted", "Ready"}]_vars
    /\ []((\A k \in Tasks : ~InFlight(k)) =>
              m_buttonState.state \notin {"Submitting", "Success", "Error"})

(* Both tasks have returned, one after a failed transport call and its     *)
(* 5 s sleep, whose SetState was the last                                  *)
C34_Witness ==
    /\ \A k \in Tasks : task[k].pc = "done"
    /\ m_buttonState = [state |-> "Ready", label |-> "Submit to FIRS",
                        tooltip |-> <<"Click to retry submission">>]

(***************************************************************************)
(* SpecDoc: the controller of SpecCtl driven the way the toolbar button    *)
(* drives it: every document opened is routed to Invoice or Unknown, and   *)
(* a click starts a submission of the current document, and only while the *)
(* button shows Ready (SumatraIntegration.cpp lines 116-122).              *)
(***************************************************************************)

ClickOnReady(k) ==
    /\ m_currentPdf # <<>>
    /\ m_buttonState.state = "Ready"
    /\ OnSubmitClicked(k, m_currentPdf)

NextDoc ==
    \/ \E relayUp \in BOOLEAN : Initialize(relayUp)
    \/ \E p \in Paths, d \in Routed : OnPdfOpened(p, d)
    \/ SessionChange
    \/ \E k \in Tasks :
        \/ ClickOnReady(k)
        \/ TaskStep(k)

SpecDoc == InitCtl /\ [][NextDoc]_vars

(* C35: once no task is in flight the ButtonState describes the most       *)
(* recently opened routed document, whatever timed reverts of earlier      *)
(* submissions have run since it was opened: the phase is AlreadySubmitted *)
(* only if the cache holds the current document's base filename, and Ready *)
(* only if it does not.                                                    *)
C35_DescribesCurrentDocument ==
    ((\A k \in Tasks : ~InFlight(k)) /\ m_currentPdf # <<>>) =>
        LET held == ExtractFilename(m_currentPdf) \in m_filenameIndex
        IN  /\ m_buttonState.state = "AlreadySubmitted" => held
            /\ m_buttonState.state = "Ready" => ~held

(* C36: the in-memory cache is append-only between Loads.  No step of      *)
(* AddEntry, Check, Save or the background loop (nor a change of the file  *)
(* by others) removes or alters a record or an index entry: the records    *)
(* before the step are a prefix of those after it and the index only       *)
(* grows.  So a filename for which Check returns AlreadySubmitted keeps    *)
(* that answer, with the same reference, user and timestamp, until the     *)
(* next Load or the end of the process; and Check returns exactly that     *)
(* answer.                                                                 *)
C36_AppendOnly ==
    [][ /\ lastOp' \notin {"Load", "Exit"} =>
              /\ Len(m_entries') >= Len(m_entries)
              /\ SubSeq(m_entries', 1, Len(m_entries)) = m_entries
              /\ m_filenameIndex \subseteq m_filenameIndex'
              /\ \A f \in CheckNames :
                     NowCheck(f).status = "AlreadySubmitted" =>
                         CheckResult(m_entries', m_filenameIndex', f) = NowCheck(f)
        /\ lastOp' = "Check" => retCheck' = NowCheck(lastArg'[1])
      ]_vars

(* The filename was added twice with different details, and Check has      *)
(* just returned those of the first record                                 *)
C36_Witness ==
    /\ lastOp = "Check"
    /\ Len(m_entries) = 2
    /\ m_entries[1].filename = lastArg[1]
    /\ m_entries[2].filename = lastArg[1]
    /\ m_entries[2].submitTimestamp # m_entries[1].submitTimestamp
    /\ retCheck = [status |-> "AlreadySubmitted",
                   firsReference |-> m_entries[1].firsReference,
                   submittedBy |-> m_entries[1].submittedBy,
                   submitTimestamp |-> m_entries[1].submitTimestamp]

====
